---------------------------- MODULE Spec2Model ----------------------------
(***************************************************************************)
(* A model of the KSeF invoice tooling of ksef-ai-compliance:              *)
(*   scripts/python/invoice_pdf_to_ksef_xml.py  (KSeFXMLConverter: rule    *)
(*       cascade, secondary extractor, encoder, XSD validation, save and   *)
(*       the PDF-to-XML orchestrator, and the CLI's error dispatch)        *)
(*   scripts/python/ksef_xml_converter.py       (the stand-alone encoder)  *)
(*   scripts/python/generate_last_10_with_xml.py (the batch script)        *)
(*                                                                         *)
(* Python strings are sequences of one-character strings, so that the      *)
(* string operations of the code (strip, replace, split, zfill, f-strings) *)
(* are computed and not tabulated.  None is the empty tuple and a present  *)
(* value v is <<v>>.  A dict is a function whose DOMAIN is its key set.    *)
(*                                                                         *)
(* The text of an invoice is represented by what the regular expressions   *)
(* of parse_invoice_with_rules find in it (one entry per re.search /       *)
(* re.findall call of the code): the regex engine is a library, the        *)
(* cascade built on its results is the program.                            *)
(***************************************************************************)
EXTENDS Integers, Sequences, FiniteSets, TLC

VARIABLES
    now,                \* the wall clock read by datetime.now(), in seconds
    namespace_map,      \* xml.etree's process-wide prefix registry
    anthropic_client,   \* self.anthropic_client is configured
    schema_type,        \* self.schema_type
    schema_exists,      \* self.schema_path.exists()
    pc,                 \* position of the running operation
    pdf,                \* state of the document at pdf_path
    text,               \* the extracted text (its regex matches)
    force_ai,           \* argument force_ai
    output_path,        \* argument output_path is given
    invoice_data,       \* local invoice_data (None or a dict)
    parsing_method,     \* local parsing_method
    xml_content,        \* local xml_content (None or the XML)
    ai_response,        \* what the completion service answered (None before)
    ai_calls,           \* number of calls of parse_invoice_from_text
    validation,         \* result of validate_against_xsd (None before)
    stagelog,           \* the stages run so far, with their outcome
    file,               \* content written at the output path (None: nothing)
    returned,           \* value returned to the caller (None: nothing)
    exception,          \* type of the exception raised to the caller
    cause,              \* the raise site of that exception
    rules_result,       \* result of parse_invoice_with_rules (None before)
    validate_arg,       \* argument validate of save_ksef_xml
    prev_xml,           \* result of the previous convert_to_ksef_xml call
    prev_now,           \* clock reading of that call
    enc_now,            \* clock reading of the latest convert_to_ksef_xml call
    config,             \* InvoiceGenerator.config (None: no generator)
    positions,          \* the positions generate_positions has built
    invoice,            \* the invoice generate_invoice returned (None before)
    threads,            \* the conversions running side by side, one per thread
    count,              \* the number of invoices generate_invoices is asked for
    invoices,           \* the list generate_invoices has built so far
    files,              \* the output directory: path |-> what was written
    logged              \* the "Invoice generated successfully" records

vars == <<now, namespace_map, anthropic_client, schema_type, schema_exists,
          pc, pdf, text, force_ai, output_path, invoice_data, parsing_method,
          xml_content, ai_response, ai_calls, validation, stagelog, file,
          returned, exception, cause, rules_result, validate_arg,
          prev_xml, prev_now, enc_now, config, positions, invoice, threads,
          count, invoices, files, logged>>

-----------------------------------------------------------------------------
(* Bounds of the model *)

\* longest list re.findall returns for the NIP pattern
MaxNip == 2
\* last second of the wall clock
MaxClock == 2

-----------------------------------------------------------------------------
(* Python values *)

None == <<>>
Some(v) == <<v>>
IsNone(o) == o = <<>>
Val(o) == o[1]

EMPTY == <<>>

WS == {" ", "\n", "\t"}
Digits == {"0","1","2","3","4","5","6","7","8","9"}

\* str.replace(c, '') for every c of cs; re.sub('[cs]', '', s)
Remove(s, cs) == SelectSeq(s, LAMBDA c : c \notin cs)

RECURSIVE LStrip(_, _)
LStrip(s, cs) ==
    IF s # <<>> /\ Head(s) \in cs THEN LStrip(Tail(s), cs) ELSE s

RECURSIVE RStrip(_, _)
RStrip(s, cs) ==
    IF s # <<>> /\ s[Len(s)] \in cs THEN RStrip(SubSeq(s, 1, Len(s) - 1), cs) ELSE s

\* str.strip()
Strip(s) == RStrip(LStrip(s, WS), WS)

\* re.split('[seps]', s) and str.split(sep): the pieces between separators
RECURSIVE SplitAcc(_, _, _, _)
SplitAcc(s, seps, cur, acc) ==
    IF s = <<>> THEN Append(acc, cur)
    ELSE IF Head(s) \in seps THEN SplitAcc(Tail(s), seps, <<>>, Append(acc, cur))
    ELSE SplitAcc(Tail(s), seps, Append(cur, Head(s)), acc)

Split(s, seps) == SplitAcc(s, seps, <<>>, <<>>)

\* str.zfill(2)
ZFill2(s) == IF Len(s) < 2 THEN <<"0">> \o s ELSE s

\* str.lower()
UpperCase ==
    <<"A","B","C","D","E","F","G","H","I","J","K","L","M",
      "N","O","P","Q","R","S","T","U","V","W","X","Y","Z">>
LowerCase ==
    <<"a","b","c","d","e","f","g","h","i","j","k","l","m",
      "n","o","p","q","r","s","t","u","v","w","x","y","z">>

LowerOf(c) ==
    IF \E i \in 1..26 : UpperCase[i] = c
    THEN LowerCase[CHOOSE i \in 1..26 : UpperCase[i] = c]
    ELSE c

Lower(s) == [i \in 1..Len(s) |-> LowerOf(s[i])]

\* dict.get(key, default)
Get(d, k, default) == IF k \in DOMAIN d THEN d[k] ELSE default

-----------------------------------------------------------------------------
(* parse_invoice_with_rules: the rule cascade and its completeness gate *)

\* invoice_data as initialised before the cascade
InitialInvoiceData ==
    [seller_name |-> EMPTY, seller_tax_no |-> EMPTY, seller_street |-> EMPTY,
     seller_country |-> <<"P","L">>,
     buyer_name |-> EMPTY, buyer_tax_no |-> EMPTY, buyer_street |-> EMPTY,
     buyer_post_code |-> EMPTY, buyer_city |-> EMPTY,
     buyer_country |-> <<"P","L">>,
     currency |-> <<"P","L","N">>,
     issue_date |-> EMPTY, number |-> EMPTY,
     price_net |-> <<"0",".","0","0">>, price_tax |-> <<"0",".","0","0">>,
     price_gross |-> <<"0",".","0","0">>]

\* (mutation of StripNip: only the dashes are taken out)
StripNipDashesOnly(raw) == Remove(raw, {"-"})

\* Pattern 1: NIP numbers; the separators are stripped
StripNip(raw) == Remove(raw, {"-"} \cup WS)

ExtractNip(d, t) ==
    IF Len(t.nip_matches) >= 2
    THEN [d EXCEPT !.seller_tax_no = StripNip(t.nip_matches[1]),
                   !.buyer_tax_no = StripNip(t.nip_matches[2])]
    ELSE IF Len(t.nip_matches) = 1
    THEN [d EXCEPT !.seller_tax_no = StripNip(t.nip_matches[1])]
    ELSE d

\* Pattern 2: the first of the five number patterns that matches, in list order
\* (mutation of FirstMatch: the loop has no break, the last match stays)
LastMatch(ms, i) ==
    LET hits == {k \in i..Len(ms) : ms[k] # None}
    IN  IF hits = {} THEN 0 ELSE CHOOSE k \in hits : \A h \in hits : h <= k

RECURSIVE FirstMatch(_, _)
FirstMatch(ms, i) ==
    IF i > Len(ms) THEN 0
    ELSE IF ms[i] # None THEN i
    ELSE FirstMatch(ms, i + 1)

ExtractNumber(d, t) ==
    LET i == FirstMatch(t.num_match, 1)
    IN  IF i = 0 THEN d ELSE [d EXCEPT !.number = Val(t.num_match[i])]

\* Pattern 3: dates
month_names ==
    {<< <<"j","a","n","u","a","r","y">>, <<"0","1">> >>,
     << <<"f","e","b","r","u","a","r","y">>, <<"0","2">> >>,
     << <<"m","a","r","c","h">>, <<"0","3">> >>,
     << <<"a","p","r","i","l">>, <<"0","4">> >>,
     << <<"m","a","y">>, <<"0","5">> >>,
     << <<"j","u","n","e">>, <<"0","6">> >>,
     << <<"j","u","l","y">>, <<"0","7">> >>,
     << <<"a","u","g","u","s","t">>, <<"0","8">> >>,
     << <<"s","e","p","t","e","m","b","e","r">>, <<"0","9">> >>,
     << <<"o","c","t","o","b","e","r">>, <<"1","0">> >>,
     << <<"n","o","v","e","m","b","e","r">>, <<"1","1">> >>,
     << <<"d","e","c","e","m","b","e","r">>, <<"1","2">> >>}

\* month_names.get(name, '01')
MonthNumber(name) ==
    IF \E p \in month_names : p[1] = name
    THEN (CHOOSE p \in month_names : p[1] = name)[2]
    ELSE <<"0","1">>

DateSeps == {"-", "/", "."}

\* (mutation of MatchesDayFirst: only the dot is taken as a separator)
MatchesDayFirstDotsOnly(s) ==
    /\ Len(s) >= 10
    /\ \A i \in {1, 2, 4, 5, 7, 8, 9, 10} : s[i] \in Digits
    /\ s[3] = "."
    /\ s[6] = "."

\* re.match(r'\d{2}[-/.]\d{2}[-/.]\d{4}', s): anchored at the start only
MatchesDayFirst(s) ==
    /\ Len(s) >= 10
    /\ \A i \in {1, 2, 4, 5, 7, 8, 9, 10} : s[i] \in Digits
    /\ s[3] \in DateSeps
    /\ s[6] \in DateSeps

NormalizeDate(groups) ==
    IF Len(groups) = 3
    THEN groups[3] \o <<"-">> \o MonthNumber(Lower(groups[2])) \o <<"-">> \o ZFill2(groups[1])
    ELSE IF MatchesDayFirst(groups[1])
    THEN LET parts == Split(groups[1], DateSeps)
         IN  parts[3] \o <<"-">> \o parts[2] \o <<"-">> \o parts[1]
    ELSE groups[1]

ExtractDate(d, t) ==
    LET i == FirstMatch(t.date_match, 1)
    IN  IF i = 0 THEN d
        ELSE [d EXCEPT !.issue_date = NormalizeDate(Val(t.date_match[i]))]

\* Pattern 4: amounts; the field each of the eight patterns writes
amount_patterns ==
    <<"price_net", "price_tax", "price_gross",
      "price_net", "price_tax", "price_gross", "price_gross", "price_gross">>

NormalizeAmount(raw) ==
    LET amount == Remove(raw, {" ", ","})
    IN  IF "." \in {amount[i] : i \in 1..Len(amount)}
        THEN LET parts == Split(amount, {"."})
             IN  IF Len(parts[Len(parts)]) = 2
                 THEN amount
                 ELSE Remove(amount, {"."}) \o <<".","0","0">>
        ELSE amount \o <<".","0","0">>

RECURSIVE ExtractAmountsFrom(_, _, _)
ExtractAmountsFrom(d, t, i) ==
    IF i > Len(amount_patterns) THEN d
    ELSE LET matches == t.amount_matches[i]
             d1 == IF matches # <<>>
                   THEN [d EXCEPT ![amount_patterns[i]] =
                                      NormalizeAmount(matches[Len(matches)])]
                   ELSE d
         IN  ExtractAmountsFrom(d1, t, i + 1)

ExtractAmounts(d, t) == ExtractAmountsFrom(d, t, 1)

\* Pattern 5: company names, Polish anchors first, English as fallback
ExtractNames(d, t) ==
    LET d1 == IF t.seller_section # None
              THEN [d EXCEPT !.seller_name = Strip(Val(t.seller_section))]
              ELSE d
        d2 == IF d1.seller_name = EMPTY /\ t.seller_eng # None
              THEN [d1 EXCEPT !.seller_name = Strip(Val(t.seller_eng)[1]),
                              !.seller_street = Strip(Val(t.seller_eng)[2])]
              ELSE d1
        d3 == IF t.buyer_section # None
              THEN [d2 EXCEPT !.buyer_name = Strip(Val(t.buyer_section))]
              ELSE d2
    IN  IF d3.buyer_name = EMPTY /\ t.buyer_eng # None
        THEN [d3 EXCEPT !.buyer_name = Strip(Val(t.buyer_eng))]
        ELSE d3

\* Pattern 6: addresses
ExtractStreets(d, t) ==
    LET d1 == IF Len(t.street_matches) >= 2
              THEN [d EXCEPT !.seller_street = Strip(t.street_matches[1]),
                             !.buyer_street = Strip(t.street_matches[2])]
              ELSE IF Len(t.street_matches) = 1 /\ d.seller_street = EMPTY
              THEN [d EXCEPT !.seller_street = Strip(t.street_matches[1])]
              ELSE d
        d2 == IF d1.seller_street = EMPTY /\ t.seller_street_eng # None
              THEN [d1 EXCEPT !.seller_street = Strip(Val(t.seller_street_eng))]
              ELSE d1
    IN  IF d2.buyer_street = EMPTY /\ t.buyer_street_eng # None
        THEN [d2 EXCEPT !.buyer_street = Strip(Val(t.buyer_street_eng))]
        ELSE d2

\* Pattern 7: postal code and city of the buyer
ExtractPostal(d, t) ==
    IF Len(t.postal_matches) >= 2
    THEN [d EXCEPT !.buyer_post_code = t.postal_matches[2][1],
                   !.buyer_city = RStrip(Strip(t.postal_matches[2][2]), {","})]
    ELSE IF Len(t.postal_matches) >= 1 /\ (t.has_bill_to \/ d.buyer_post_code = EMPTY)
    THEN [d EXCEPT !.buyer_post_code = t.postal_matches[1][1],
                   !.buyer_city = RStrip(Strip(t.postal_matches[1][2]), {","})]
    ELSE d

\* The whole cascade, in the order of the code
RuleCascade(t) ==
    ExtractPostal(ExtractStreets(ExtractNames(ExtractAmounts(ExtractDate(
        ExtractNumber(ExtractNip(InitialInvoiceData, t), t), t), t), t), t), t)

required_fields ==
    <<"seller_name", "seller_tax_no", "buyer_name", "buyer_tax_no",
      "number", "issue_date", "price_net", "price_tax", "price_gross">>

\* (mutation of IsMissing: the zero-value placeholder counts as a value)
IsMissingEmptyOnly(d, f) == Get(d, f, EMPTY) = EMPTY

\* not invoice_data.get(field) or invoice_data[field] == '0.00'
IsMissing(d, f) == Get(d, f, EMPTY) = EMPTY \/ d[f] = <<"0",".","0","0">>

missing_fields(d) ==
    SelectSeq(required_fields, LAMBDA f : IsMissing(d, f))

\* returns (invoice_data, success)
parse_invoice_with_rules(t) ==
    LET d == RuleCascade(t)
    IN  <<d, missing_fields(d) = <<>> >>

-----------------------------------------------------------------------------
(* The texts the rule cascade is run on: for each regular expression of   *)
(* the code, what it finds in the text.                                    *)

NipRaw == {<<"5","2","6","-","0","0","0"," ","1","2","-","4","6">>, <<"1","2","3","4","5","6","7","8","9","0">>}

NipLists == UNION {[1..n -> NipRaw] : n \in 0..MaxNip}

\* re.search of the five invoice_num_patterns (None: no match; else group 1)
NumMatches ==
    {<<None, None, None, None, None>>,
     <<Some(<<"1","3">>), None, None, None, None>>,
     <<None, None, Some(<<"F","V","/","7","/","2","0","2","5">>), None, Some(<<"7","/","4","/","2","0","2","5">>)>>,
     <<Some(<<"1","3">>), None, Some(<<"F","V","/","7","/","2","0","2","5">>), None, None>>}

\* re.search of the six date_patterns (None: no match; else match.groups());
\* whatever pattern 2 matches, pattern 1 matches as well
DateMatches ==
    {<<None, None, None, None, None, None>>,
     <<Some(<<<<"2">>, <<"A","p","r","i","l">>, <<"2","0","2","5">>>>), Some(<<<<"2">>, <<"A","p","r","i","l">>, <<"2","0","2","5">>>>), None, None, None, None>>,
     <<None, None, Some(<<<<"2","0","2","5","-","0","4","-","0","2">>>>), None, Some(<<<<"2","0","2","5","-","0","4","-","0","1">>>>), None>>,
     <<None, None, None, Some(<<<<"0","2",".","0","4",".","2","0","2","5">>>>), None, None>>,
     <<None, None, None, Some(<<<<"0","2","/","0","4","/","2","0","2","5">>>>), None, Some(<<<<"0","3","-","0","4","-","2","0","2","5">>>>)>>,
     <<None, None, None, Some(<<<<"0","2","-","0","4","-","2","0","2","5">>>>), None, None>>,
     <<Some(<<<<"1","2">>, <<"D","E","C","E","M","B","E","R">>, <<"2","0","2","4">>>>), Some(<<<<"1","2">>, <<"D","E","C","E","M","B","E","R">>, <<"2","0","2","4">>>>), Some(<<<<"2","0","2","4","-","1","2","-","1","3">>>>), None, None, None>>,
     <<Some(<<<<"2">>, <<"K","w","i","e","t","n","i","a">>, <<"2","0","2","5">>>>), Some(<<<<"2">>, <<"K","w","i","e","t","n","i","a">>, <<"2","0","2","5">>>>), None, None, None, None>>}

\* re.findall of the eight amount_patterns; the class [\d,\s] of the Polish
\* patterns takes a following space or newline into the match and stops at
\* '%' and '.', and 'VAT 23% 230.00 zl' is matched by patterns 2 and 5
AmountMatches ==
    {<< <<>>, <<>>, <<>>, <<>>, <<>>, <<>>, <<>>, <<>> >>,
     << <<<<"1",",","0","0","0",".","0","0">>>>, <<<<"2","3","0",".","0","0">>>>, <<<<"1",",","2","3","0",".","0","0">>>>, <<>>, <<<<"2","3">>>>, <<>>, <<>>, <<>> >>,
     << <<>>, <<>>, <<>>, <<<<"1","0","0">>, <<"2","0","0"," ">>>>, <<<<"2","3">>, <<"4","6">>>>, <<<<"1","2","3">>, <<"2","4","6">>>>, <<>>, <<<<"2","4","6">>>> >>,
     << <<>>, <<>>, <<>>, <<<<"1","0","0">>>>, <<>>, <<>>, <<>>, <<>> >>,
     << <<>>, <<>>, <<>>, <<<<"1"," ","0","0","0",",","0","0","\n">>>>, <<<<"2","3","0",",","0","0","\n">>>>, <<<<"1"," ","2","3","0",",","0","0","\n">>>>, <<>>, <<>> >>}

\* Sprzedawca section, the English seller block (name, street line)
SellerMatches ==
    {[seller_section |-> None, seller_eng |-> None],
     [seller_section |-> Some(<<"A","C","M","E"," ">>), seller_eng |-> None],
     [seller_section |-> None, seller_eng |-> Some(<<<<"A","C","M","E">>, <<"1"," ","M","a","i","n"," ","s","t","r","e","e","t">>>>)]}

\* Nabywca section, the Bill To line; 'Bill To' in text
BuyerMatches ==
    {[buyer_section |-> None, buyer_eng |-> None, has_bill_to |-> FALSE],
     [buyer_section |-> Some(<<"B","o","l","t">>), buyer_eng |-> None, has_bill_to |-> FALSE],
     [buyer_section |-> None, buyer_eng |-> Some(<<" ","B","o","l","t">>), has_bill_to |-> TRUE]}

\* re.findall of street_pattern, the two English street searches
StreetMatches ==
    {[street_matches |-> <<>>, seller_street_eng |-> None, buyer_street_eng |-> None],
     [street_matches |-> <<<<"P","r","o","s","t","a"," ","1">>>>, seller_street_eng |-> None,
      buyer_street_eng |-> None],
     [street_matches |-> <<<<"P","r","o","s","t","a"," ","1">>, <<"K","r","z","y","w","a"," ","2">>>>, seller_street_eng |-> None,
      buyer_street_eng |-> None],
     [street_matches |-> <<>>, seller_street_eng |-> Some(<<"1"," ","M","a","i","n"," ","s","t","r","e","e","t">>),
      buyer_street_eng |-> Some(<<"2"," ","O","a","k">>)]}

\* re.findall of postal_pattern: (code, city) pairs
PostalMatches ==
    {<<>>,
     << <<<<"0","0","-","0","0","1">>, <<"W","a","r","s","z","a","w","a">>>> >>,
     << <<<<"0","0","-","0","0","1">>, <<"W","a","r","s","z","a","w","a">>>>, <<<<"3","0","-","0","0","2">>, <<"K","r","a","k","o","w","\n">>>> >>}

MkText(nip, num, date, amt, se, bu, st, po) ==
    [nip_matches |-> nip, num_match |-> num, date_match |-> date,
     amount_matches |-> amt,
     seller_section |-> se.seller_section, seller_eng |-> se.seller_eng,
     buyer_section |-> bu.buyer_section, buyer_eng |-> bu.buyer_eng,
     has_bill_to |-> bu.has_bill_to,
     street_matches |-> st.street_matches,
     seller_street_eng |-> st.seller_street_eng,
     buyer_street_eng |-> st.buyer_street_eng,
     postal_matches |-> po]

RuleTexts ==
    {MkText(nip, num, date, amt, se, bu, st, po) :
        nip \in NipLists, num \in NumMatches, date \in DateMatches,
        amt \in AmountMatches, se \in SellerMatches, bu \in BuyerMatches,
        st \in StreetMatches, po \in PostalMatches}

-----------------------------------------------------------------------------
(* convert_to_ksef_xml of invoice_pdf_to_ksef_xml.py.  The XML document is *)
(* the sequence of its elements in document order, each with its parent    *)
(* path, tag, text and attributes; the root carries the prefix the         *)
(* serializer gives the KSeF namespace.                                    *)

El(parent, tag, text_) ==
    [parent |-> parent, tag |-> tag, text |-> text_, attrib |-> <<>>]

DigitChar == <<"0","1","2","3","4","5","6","7","8","9">>

\* datetime.now().strftime("%Y-%m-%dT%H:%M:%S"), the clock counting the
\* seconds of one minute
Strftime(n) ==
    <<"2","0","2","5","-","0","1","-","0","1","T","0","0",":","0","0",":">> \o <<DigitChar[(n \div 10) + 1], DigitChar[(n % 10) + 1] >>

\* xml.etree's registry when the module is imported
InitialNamespaceMap == [xsi |-> "xsi", xsd |-> "xs"]

\* the loop of ET.register_namespace: every entry with that uri or that
\* prefix is deleted from the registry
UnregisterClashes(m, prefix, uri) ==
    [k \in {k \in DOMAIN m : k # uri /\ m[k] # prefix} |-> m[k]]

\* its last statement: _namespace_map[uri] = prefix
SetPrefix(m, prefix, uri) ==
    [k \in DOMAIN m \cup {uri} |-> IF k = uri THEN prefix ELSE m[k]]

\* ET.register_namespace(prefix, uri): entries with that uri or prefix go
RegisterNamespace(m, prefix, uri) ==
    SetPrefix(UnregisterClashes(m, prefix, uri), prefix, uri)

\* the three register_namespace calls that open convert_to_ksef_xml
RegisterNamespaces(m) ==
    RegisterNamespace(RegisterNamespace(RegisterNamespace(m, "", "ksef"),
                                        "xsi", "xsi"), "xsd", "xsd")

\* the root element as ET.tostring writes it under registry m
Root(m) ==
    << [parent |-> "", tag |-> "Faktura", text |-> EMPTY,
       attrib |-> << <<"prefix", IF "ksef" \in DOMAIN m THEN m["ksef"] ELSE "ns0">>,
                     <<"xsi:schemaLocation", "schemat.xsd">> >>] >>

\* (mutation of variant_number: the variant is always written as 2)
variant_number_default(st) == <<"2">>

\* self.schema_type[-1]
variant_number(st) == <<st[Len(st)] >>

\* Naglowek: form code (with schema version), variant, creation timestamp
Naglowek(st, now_) ==
    <<El("Faktura", "Naglowek", EMPTY),
      [parent |-> "Naglowek", tag |-> "KodFormularza", text |-> <<"F","A">>,
       attrib |-> << <<"kodSystemowy",
                       <<"F","A"," ","(">> \o variant_number(st) \o <<")">> >>,
                     <<"wersjaSchemy", <<"1","-","0","E">>>> >>],
      El("Naglowek", "WariantFormularza", variant_number(st)),
      El("Naglowek", "DataWytworzeniaFa", Strftime(now_))>>

\* Podmiot1: seller identity, then seller address (street only)
Podmiot1(d) ==
    <<El("Faktura", "Podmiot1", EMPTY),
      El("Podmiot1", "DaneIdentyfikacyjne", EMPTY),
      El("Podmiot1/DaneIdentyfikacyjne", "NIP", d["seller_tax_no"]),
      El("Podmiot1/DaneIdentyfikacyjne", "Nazwa", d["seller_name"]),
      El("Podmiot1", "Adres", EMPTY),
      El("Podmiot1/Adres", "KodKraju", Get(d, "seller_country", <<"P","L">>)),
      El("Podmiot1/Adres", "AdresL1", d["seller_street"])>>

\* Podmiot2: buyer identity, then buyer address (street, postal code city)
Podmiot2(d) ==
    <<El("Faktura", "Podmiot2", EMPTY),
      El("Podmiot2", "DaneIdentyfikacyjne", EMPTY),
      El("Podmiot2/DaneIdentyfikacyjne", "NIP", d["buyer_tax_no"]),
      El("Podmiot2/DaneIdentyfikacyjne", "Nazwa", d["buyer_name"]),
      El("Podmiot2", "Adres", EMPTY),
      El("Podmiot2/Adres", "KodKraju", Get(d, "buyer_country", <<"P","L">>)),
      El("Podmiot2/Adres", "AdresL1",
         d["buyer_street"] \o <<",", " ">> \o d["buyer_post_code"] \o <<" ">>
             \o d["buyer_city"])>>

\* (mutation of FaFinancial: the number is written before the issue date)
FaFinancialNumberFirst(d) ==
    <<El("Faktura", "Fa", EMPTY),
      El("Fa", "KodWaluty", d["currency"]),
      El("Fa", "P_2", d["number"]),
      El("Fa", "P_1", d["issue_date"]),
      El("Fa", "P_13_1", d["price_net"]),
      El("Fa", "P_14_1", d["price_tax"]),
      El("Fa", "P_15", d["price_gross"])>>

\* Fa: currency, issue date, number, net, tax, gross
FaFinancial(d) ==
    <<El("Faktura", "Fa", EMPTY),
      El("Fa", "KodWaluty", d["currency"]),
      El("Fa", "P_1", d["issue_date"]),
      El("Fa", "P_2", d["number"]),
      El("Fa", "P_13_1", d["price_net"]),
      El("Fa", "P_14_1", d["price_tax"]),
      El("Fa", "P_15", d["price_gross"])>>

\* Adnotacje: the annotation flags
Adnotacje ==
    <<El("Fa", "Adnotacje", EMPTY),
      El("Fa/Adnotacje", "P_16", <<"2">>),
      El("Fa/Adnotacje", "P_17", <<"2">>),
      El("Fa/Adnotacje", "P_18", <<"2">>),
      El("Fa/Adnotacje", "P_18A", <<"2">>),
      El("Fa/Adnotacje", "Zwolnienie", EMPTY),
      El("Fa/Adnotacje/Zwolnienie", "P_19N", <<"1">>),
      El("Fa/Adnotacje", "NoweSrodkiTransportu", EMPTY),
      El("Fa/Adnotacje/NoweSrodkiTransportu", "P_22N", <<"1">>),
      El("Fa/Adnotacje", "P_23", <<"2">>),
      El("Fa/Adnotacje", "PMarzy", EMPTY),
      El("Fa/Adnotacje/PMarzy", "P_PMarzyN", <<"1">>)>>

\* RodzajFaktury: the invoice kind
RodzajFaktury == <<El("Fa", "RodzajFaktury", <<"V","A","T">>)>>

\* the keys read with invoice_data[...], in the order they are read
encoder_keys ==
    <<"seller_tax_no", "seller_name", "seller_street",
      "buyer_tax_no", "buyer_name", "buyer_street", "buyer_post_code",
      "buyer_city", "currency", "issue_date", "number",
      "price_net", "price_tax", "price_gross">>

MissingKeys(d, keys) == SelectSeq(keys, LAMBDA k : k \notin DOMAIN d)

Document(d, st, now_, m) ==
    Root(m) \o Naglowek(st, now_) \o Podmiot1(d) \o Podmiot2(d)
        \o FaFinancial(d) \o Adnotacje \o RodzajFaktury

\* (mutation of convert_to_ksef_xml: the document is written under the
\* registry as it was before the register_namespace calls)
convert_to_ksef_xml_stale_registry(d, st, now_, m) ==
    IF MissingKeys(d, encoder_keys) # <<>>
    THEN [exception |-> "KeyError", xml |-> None,
          namespace_map |-> RegisterNamespaces(m)]
    ELSE [exception |-> "none",
          xml |-> Some(Document(d, st, now_, m)),
          namespace_map |-> RegisterNamespaces(m)]

\* m is the registry when the call starts.  Returns the XML, or raises
\* KeyError at the first key that is missing; the registry is updated first
convert_to_ksef_xml(d, st, now_, m) ==
    IF MissingKeys(d, encoder_keys) # <<>>
    THEN [exception |-> "KeyError", xml |-> None,
          namespace_map |-> RegisterNamespaces(m)]
    ELSE [exception |-> "none",
          xml |-> Some(Document(d, st, now_, RegisterNamespaces(m))),
          namespace_map |-> RegisterNamespaces(m)]

-----------------------------------------------------------------------------
(* convert_to_ksef_xml of ksef_xml_converter.py *)

LegacyStrftime(n) ==
    <<"2","0","2","5","-","0","1","-","0","1","T","0","0",":","0","0",":">> \o <<DigitChar[(n \div 10) + 1], DigitChar[(n % 10) + 1] >>

\* (mutation of LegacyNaglowek: the literals are those of FA(3))
LegacyNaglowekVariant3(now_) == Naglowek(<<"F","A","3">>, now_)

\* Naglowek: the form code and the variant are the literals of FA(2)
LegacyNaglowek(now_) ==
    <<El("Faktura", "Naglowek", EMPTY),
      [parent |-> "Naglowek", tag |-> "KodFormularza", text |-> <<"F","A">>,
       attrib |-> << <<"kodSystemowy", <<"F","A"," ","(","2",")">>>>,
                     <<"wersjaSchemy", <<"1","-","0","E">>>> >>],
      El("Naglowek", "WariantFormularza", <<"2">>),
      El("Naglowek", "DataWytworzeniaFa", LegacyStrftime(now_))>>

\* Podmiot1: seller identity, then seller address (street only)
LegacyPodmiot1(d) ==
    <<El("Faktura", "Podmiot1", EMPTY),
      El("Podmiot1", "DaneIdentyfikacyjne", EMPTY),
      El("Podmiot1/DaneIdentyfikacyjne", "NIP", d["seller_tax_no"]),
      El("Podmiot1/DaneIdentyfikacyjne", "Nazwa", d["seller_name"]),
      El("Podmiot1", "Adres", EMPTY),
      El("Podmiot1/Adres", "KodKraju", Get(d, "seller_country", <<"P","L">>)),
      El("Podmiot1/Adres", "AdresL1", d["seller_street"])>>

\* Podmiot2: buyer identity, then buyer address (street, postal code city)
LegacyPodmiot2(d) ==
    <<El("Faktura", "Podmiot2", EMPTY),
      El("Podmiot2", "DaneIdentyfikacyjne", EMPTY),
      El("Podmiot2/DaneIdentyfikacyjne", "NIP", d["buyer_tax_no"]),
      El("Podmiot2/DaneIdentyfikacyjne", "Nazwa", d["buyer_name"]),
      El("Podmiot2", "Adres", EMPTY),
      El("Podmiot2/Adres", "KodKraju", Get(d, "buyer_country", <<"P","L">>)),
      El("Podmiot2/Adres", "AdresL1",
         d["buyer_street"] \o <<",", " ">> \o d["buyer_post_code"] \o <<" ">>
             \o d["buyer_city"])>>

\* Fa: currency, issue date, number, net, tax, gross
LegacyFaFinancial(d) ==
    <<El("Faktura", "Fa", EMPTY),
      El("Fa", "KodWaluty", d["currency"]),
      El("Fa", "P_1", d["issue_date"]),
      El("Fa", "P_2", d["number"]),
      El("Fa", "P_13_1", d["price_net"]),
      El("Fa", "P_14_1", d["price_tax"]),
      El("Fa", "P_15", d["price_gross"])>>

\* Adnotacje: the annotation flags
LegacyAdnotacje ==
    <<El("Fa", "Adnotacje", EMPTY),
      El("Fa/Adnotacje", "P_16", <<"2">>),
      El("Fa/Adnotacje", "P_17", <<"2">>),
      El("Fa/Adnotacje", "P_18", <<"2">>),
      El("Fa/Adnotacje", "P_18A", <<"2">>),
      El("Fa/Adnotacje", "Zwolnienie", EMPTY),
      El("Fa/Adnotacje/Zwolnienie", "P_19N", <<"1">>),
      El("Fa/Adnotacje", "NoweSrodkiTransportu", EMPTY),
      El("Fa/Adnotacje/NoweSrodkiTransportu", "P_22N", <<"1">>),
      El("Fa/Adnotacje", "P_23", <<"2">>),
      El("Fa/Adnotacje", "PMarzy", EMPTY),
      El("Fa/Adnotacje/PMarzy", "P_PMarzyN", <<"1">>)>>

\* RodzajFaktury: the invoice kind
LegacyRodzajFaktury == <<El("Fa", "RodzajFaktury", <<"V","A","T">>)>>

\* the keys read with invoice_data[...], in the order they are read
Legacyencoder_keys ==
    <<"seller_tax_no", "seller_name", "seller_street",
      "buyer_tax_no", "buyer_name", "buyer_street", "buyer_post_code",
      "buyer_city", "currency", "issue_date", "number",
      "price_net", "price_tax", "price_gross">>

LegacyDocument(d, now_, m) ==
    Root(m) \o LegacyNaglowek(now_) \o LegacyPodmiot1(d) \o LegacyPodmiot2(d)
        \o LegacyFaFinancial(d) \o LegacyAdnotacje \o LegacyRodzajFaktury

legacy_convert_to_ksef_xml(d, now_, m) ==
    IF MissingKeys(d, Legacyencoder_keys) # <<>>
    THEN [exception |-> "KeyError", xml |-> None,
          namespace_map |-> RegisterNamespaces(m)]
    ELSE [exception |-> "none",
          xml |-> Some(LegacyDocument(d, now_, RegisterNamespaces(m))),
          namespace_map |-> RegisterNamespaces(m)]

-----------------------------------------------------------------------------
(* The raise statements of the converter: the exception type of each *)

RaisedAt(site) ==
    CASE site = "missing_document" -> "FileNotFoundError"
      [] site = "schema_not_found" -> "FileNotFoundError"
      [] site = "client_missing" -> "ValueError"
      [] site = "secondary_unconfigured" -> "ValueError"
      [] site = "validation_failed" -> "ValueError"
      [] site = "save_validation_failed" -> "ValueError"
      [] site = "secondary_failed" -> "Exception"

-----------------------------------------------------------------------------
(* validate_against_xsd.  What lxml finds is the environment's choice:     *)
(* the XSD files are not part of the program.                              *)

\* the run of lxml: kind of outcome and schema.error_log
XsdOutcomes ==
    {[kind |-> "valid", error_log |-> <<>>],
     [kind |-> "invalid",
      error_log |-> << [line |-> 3, message |-> "missing"] >>],
     [kind |-> "invalid",
      error_log |-> << [line |-> 3, message |-> "missing"],
                       [line |-> 9, message |-> "pattern"] >>],
     [kind |-> "syntax_error", error_log |-> <<>>],
     [kind |-> "exception", error_log |-> <<>>]}

\* "Line {error.line}: {error.message}" for every entry of the error log
ErrorLines(error_log) ==
    [i \in 1..Len(error_log) |->
        [line |-> Some(error_log[i].line), message |-> error_log[i].message]]

\* self.schema_path: the file name of the XSD that validate_against_xsd opens,
\* f'schemat_FA({schema_type[-1]})_v1-0E.xsd'
schema_path(st) ==
    <<"s","c","h","e","m","a","t","_","F","A","(">> \o <<st[Len(st)]>> \o <<")","_","v","1","-","0","E",".","x","s","d">>

\* returns (is_valid, error_message), or raises FileNotFoundError
validate_against_xsd(exists, outcome) ==
    IF ~exists
    THEN [exception |-> RaisedAt("schema_not_found"), is_valid |-> FALSE,
          error_message |-> None]
    ELSE IF outcome.kind = "valid"
    THEN [exception |-> "none", is_valid |-> TRUE, error_message |-> None]
    ELSE IF outcome.kind = "invalid"
    THEN [exception |-> "none", is_valid |-> FALSE,
          error_message |-> Some(ErrorLines(outcome.error_log))]
    ELSE IF outcome.kind = "syntax_error"
    THEN [exception |-> "none", is_valid |-> FALSE,
          error_message |-> Some(<< [line |-> None, message |-> "XML syntax error"] >>)]
    ELSE [exception |-> "none", is_valid |-> FALSE,
          error_message |-> Some(<< [line |-> None, message |-> "Validation error"] >>)]

-----------------------------------------------------------------------------
(* parse_invoice_from_text: the secondary (AI) extractor.  The completion  *)
(* service is the environment: whether the call succeeds, whether the      *)
(* answer is wrapped in a code fence (plain, or tagged json), and what    *)
(* the text inside parses to.                                              *)

\* a record the service may answer with: complete
AIComplete ==
    [seller_name |-> <<"Z","e","t","a">>, seller_tax_no |-> <<"1","1","1","1","1","1","1","1","1","1">>,
     seller_street |-> <<"Z","e","t","a"," ","9">>, seller_country |-> <<"P","L">>,
     buyer_name |-> <<"O","m","e","g","a">>, buyer_tax_no |-> <<"2","2","2","2","2","2","2","2","2","2">>,
     buyer_street |-> <<"O","m","e","g","a"," ","8">>, buyer_post_code |-> <<"1","1","-","1","1","1">>,
     buyer_city |-> <<"L","o","d","z">>, buyer_country |-> <<"P","L">>,
     currency |-> <<"P","L","N">>, issue_date |-> <<"2","0","2","4","-","1","2","-","3","1">>,
     number |-> <<"A","I","/","1">>, price_net |-> <<"1","0",".","0","0">>,
     price_tax |-> <<"2",".","3","0">>, price_gross |-> <<"1","2",".","3","0">>]

\* fields not found, answered as the prompt asks: "" and "0.00"
AINotFound ==
    [AIComplete EXCEPT !.buyer_tax_no = EMPTY, !.seller_street = EMPTY,
                       !.price_tax = <<"0",".","0","0">>]

\* every field found but the tax amount, answered as "0.00"
AITaxNotFound == [AIComplete EXCEPT !.price_tax = <<"0",".","0","0">>]

\* an answer that leaves keys out
AIKeysLeftOut ==
    [k \in DOMAIN AIComplete \ {"buyer_city", "seller_country"} |-> AIComplete[k]]

\* a JSON value that is no object (a list)
JsonList == [json_list |-> EMPTY]

IsDict(v) == "json_list" \notin DOMAIN v

\* The text of an answer, as a sequence of pieces: "FENCE" is the marker
\* of three backquotes, "json" and "JSON" are language tags written right
\* after it, "BODY" is the JSON text of the answer's value, "GARBAGE" is
\* text that is no JSON, "Here:" is prose in front of the answer.
TextPlain == <<"BODY">>
TextPadded == <<"\n", "BODY", "\n">>
TextFenced == <<"FENCE", "\n", "BODY", "\n", "FENCE">>
TextFencedJson == <<"FENCE", "json", "\n", "BODY", "\n", "FENCE", "\n">>
TextFencedUnclosed == <<"FENCE", "json", "\n", "BODY">>
TextFencedOtherTag == <<"FENCE", "JSON", "\n", "BODY", "\n", "FENCE">>
TextProseThenFence == <<"Here:", "\n", "FENCE", "json", "\n", "BODY", "\n", "FENCE">>
TextGarbage == <<"GARBAGE">>
TextFencedGarbage == <<"FENCE", "json", "\n", "GARBAGE", "\n", "FENCE">>
TextFenceOnly == <<"FENCE">>

AIResponses ==
    {[api_ok |-> FALSE, text |-> TextPlain, value |-> AIComplete]}
    \cup {[api_ok |-> TRUE, text |-> t, value |-> v] :
             t \in {TextPlain, TextFenced, TextFencedJson},
             v \in {AIComplete, AINotFound, AITaxNotFound, AIKeysLeftOut,
                    JsonList}}
    \cup {[api_ok |-> TRUE, text |-> t, value |-> AIComplete] :
             t \in {TextPadded, TextFencedUnclosed, TextFencedOtherTag,
                    TextProseThenFence, TextGarbage, TextFencedGarbage,
                    TextFenceOnly}}

\* (mutation of StripFence: only the surrounding whitespace is removed)
StripFenceWhitespaceOnly(t) == Strip(t)

\* response_text.strip(); if it starts with the fence marker: the piece
\* between the first two markers, without a leading 'json', stripped
StripFence(t) ==
    LET t1 == Strip(t)
    IN  IF t1 # <<>> /\ Head(t1) = "FENCE"
        THEN LET t2 == Split(t1, {"FENCE"})[2]
                 t3 == IF t2 # <<>> /\ Head(t2) = "json" THEN Tail(t2) ELSE t2
             IN  Strip(t3)
        ELSE t1

\* json.loads of the response text
JsonLoads(t, value) ==
    IF t = <<"BODY">>
    THEN [exception |-> "none", value |-> value]
    ELSE [exception |-> "JSONDecodeError", value |-> JsonList]

\* returns the parsed value, or raises ValueError / Exception
parse_invoice_from_text(client, resp) ==
    IF ~client THEN [exception |-> RaisedAt("client_missing"), value |-> JsonList]
    ELSE IF ~resp.api_ok
    THEN [exception |-> RaisedAt("secondary_failed"), value |-> JsonList]
    ELSE LET r == JsonLoads(StripFence(resp.text), resp.value)
         IN  IF r.exception # "none"
             THEN [exception |-> RaisedAt("secondary_failed"), value |-> JsonList]
             ELSE r

-----------------------------------------------------------------------------
(* The texts and invoices the operations are run on *)

NoText ==
    MkText(<<>>, <<None, None, None, None, None>>,
           <<None, None, None, None, None, None>>,
           << <<>>, <<>>, <<>>, <<>>, <<>>, <<>>, <<>>, <<>> >>,
           [seller_section |-> None, seller_eng |-> None],
           [buyer_section |-> None, buyer_eng |-> None, has_bill_to |-> FALSE],
           [street_matches |-> <<>>, seller_street_eng |-> None,
            buyer_street_eng |-> None],
           <<>>)

\* a Polish invoice: every field is found
TextPolish ==
    MkText(<<<<"5","2","6","-","0","0","0","-","1","2","-","4","6">>, <<"1","2","3","4","5","6","7","8","9","0">>>>,
           <<None, None, Some(<<"F","V","/","7","/","2","0","2","5">>), None, Some(<<"7","/","4","/","2","0","2","5">>)>>,
           <<None, None, None, Some(<<<<"0","2",".","0","4",".","2","0","2","5">>>>), None, None>>,
           << <<>>, <<>>, <<>>, <<<<"1","0","0">>, <<"2","0","0"," ">>>>, <<<<"2","3">>, <<"4","6">>>>,
              <<<<"1","2","3">>, <<"2","4","6">>>>, <<>>, <<<<"2","4","6">>>> >>,
           [seller_section |-> Some(<<"A","C","M","E"," ">>), seller_eng |-> None],
           [buyer_section |-> Some(<<"B","o","l","t">>), buyer_eng |-> None, has_bill_to |-> FALSE],
           [street_matches |-> <<<<"P","r","o","s","t","a"," ","1">>, <<"K","r","z","y","w","a"," ","2">>>>, seller_street_eng |-> None,
            buyer_street_eng |-> None],
           << <<<<"0","0","-","0","0","1">>, <<"W","a","r","s","z","a","w","a">>>>, <<<<"3","0","-","0","0","2">>, <<"K","r","a","k","o","w","\n">>>> >>)

\* an invoice whose nine gated fields are found, and no street or postal code
TextNoStreet ==
    MkText(<<<<"5","2","6","-","0","0","0","-","1","2","-","4","6">>, <<"1","2","3","4","5","6","7","8","9","0">>>>,
           <<Some(<<"1","3">>), None, None, None, None>>,
           <<Some(<<<<"2">>, <<"A","p","r","i","l">>, <<"2","0","2","5">>>>), None, None, None, None, None>>,
           << <<<<"1",",","0","0","0",".","0","0">>>>, <<<<"2","3","0",".","0","0">>>>, <<<<"1",",","2","3","0",".","0","0">>>>, <<>>, <<>>, <<>>, <<>>, <<>> >>,
           [seller_section |-> Some(<<"A","C","M","E"," ">>), seller_eng |-> None],
           [buyer_section |-> Some(<<"B","o","l","t">>), buyer_eng |-> None, has_bill_to |-> FALSE],
           [street_matches |-> <<>>, seller_street_eng |-> None,
            buyer_street_eng |-> None],
           <<>>)

\* an invoice with one NIP only: the buyer's tax number is not found
TextOneNip ==
    [TextPolish EXCEPT !.nip_matches = <<<<"5","2","6","-","0","0","0","-","1","2","-","4","6">>>>]

ConvTexts == {NoText, TextPolish, TextNoStreet, TextOneNip}

SchemaTypes == {<<"F","A","2">>, <<"F","A","3">>}

Restrict(d, drop) == [k \in DOMAIN d \ drop |-> d[k]]

\* a record that also has the sell date and the payment-due date of an
\* invoice, as the dicts of generate_invoice have
InvoiceWithDates ==
    AIComplete @@ [sell_date |-> <<"2","0","2","4","-","1","2","-","3","0">>,
                   payment_to |-> <<"2","0","2","5","-","0","1","-","0","7">>]

\* invoice records handed to the encoder directly
EncInvoices ==
    {Restrict([base EXCEPT !.number = n, !.seller_street = s,
                           !.price_net = pn], drop) :
        base \in {AIComplete, InvoiceWithDates},
        n \in {<<"A","I","/","1">>, <<"F","V","/","7","/","2","0","2","5">>},
        s \in {<<"Z","e","t","a"," ","9">>, EMPTY},
        pn \in {<<"1","0",".","0","0">>, <<"1","0","0","0",".","0","0">>},
        drop \in {{}, {"seller_country"}, {"buyer_tax_no"}, {"seller_street"},
                  {"price_gross", "buyer_country"}}}

-----------------------------------------------------------------------------
(* convert_pdf_to_ksef_xml: the orchestrator, one action per stage *)

Stage(name, ok) == [stage |-> name, ok |-> ok]

\* the call: the document at pdf_path, output_path given or not, force_ai
Call ==
    /\ pc = "idle"
    /\ \E p \in {"missing", "unreadable", "ok"}, f \in BOOLEAN, o \in BOOLEAN :
          /\ pdf' = p
          /\ force_ai' = f
          /\ output_path' = o
    /\ pc' = "extract_text"
    /\ UNCHANGED <<config, positions, invoice, threads,
                   now, namespace_map, anthropic_client, schema_type,
                   schema_exists, text, invoice_data, parsing_method,
                   xml_content, ai_response, ai_calls, validation, stagelog,
                   file, returned, exception, cause, rules_result, validate_arg,
                   prev_xml, prev_now, enc_now,
                   count, invoices, files, logged>>

\* extract_text_from_pdf: FileNotFoundError when the document is missing
ExtractText ==
    /\ pc = "extract_text"
    /\ IF pdf = "missing"
       THEN /\ stagelog' = Append(stagelog, Stage("text_extraction", FALSE))
            /\ pc' = "failed"
            /\ exception' = RaisedAt("missing_document")
            /\ cause' = "missing_document"
            /\ text' = text
       ELSE IF pdf = "unreadable"
       THEN /\ stagelog' = Append(stagelog, Stage("text_extraction", FALSE))
            /\ pc' = "failed"
            /\ exception' = "Exception"
            /\ cause' = "unreadable_document"
            /\ text' = text
       ELSE /\ \E t \in ConvTexts : text' = t
            /\ stagelog' = Append(stagelog, Stage("text_extraction", TRUE))
            /\ pc' = IF force_ai THEN "fallback" ELSE "parse_rules"
            /\ UNCHANGED <<exception, cause>>
    /\ UNCHANGED <<config, positions, invoice, threads,
                   now, namespace_map, anthropic_client, schema_type,
                   schema_exists, pdf, force_ai, output_path, invoice_data,
                   parsing_method, xml_content, ai_response, ai_calls,
                   validation, file, returned, rules_result, validate_arg,
                   prev_xml, prev_now, enc_now,
                   count, invoices, files, logged>>

\* (mutation of RuleOutcome: the partial record of a failed cascade is kept)
RuleOutcomeKeepsPartial(r) == Some(r[1])

\* what is kept of the rule cascade's result: the record on success, None
\* (the partial record is dropped) on failure
RuleOutcome(r) == IF r[2] THEN Some(r[1]) ELSE None

\* the rule cascade, unless force_ai
ParseRules ==
    /\ pc = "parse_rules"
    /\ LET r == parse_invoice_with_rules(text)
       IN  /\ rules_result' = Some(r)
           /\ invoice_data' = RuleOutcome(r)
           /\ parsing_method' = IF r[2] THEN Some("rule-based") ELSE None
           /\ stagelog' = Append(stagelog, Stage("rule_cascade", r[2]))
    /\ pc' = "fallback"
    /\ UNCHANGED <<config, positions, invoice, threads,
                   now, namespace_map, anthropic_client, schema_type,
                   schema_exists, pdf, text, force_ai, output_path, xml_content,
                   ai_response, ai_calls, validation, file, returned, exception,
                   cause, validate_arg, prev_xml, prev_now, enc_now,
                   count, invoices, files, logged>>

\* (mutation of NeedsSecondary: the secondary extractor is always asked)
NeedsSecondaryAlways(inv) == TRUE

\* if invoice_data is None
NeedsSecondary(inv) == inv = None

\* the fallback to the secondary extractor
Fallback ==
    /\ pc = "fallback"
    /\ IF ~NeedsSecondary(invoice_data)
       THEN /\ pc' = "log_parsed"
            /\ UNCHANGED <<invoice_data, parsing_method, ai_response, ai_calls,
                           stagelog, exception, cause>>
       ELSE IF ~anthropic_client
       THEN /\ pc' = "failed"
            /\ exception' = RaisedAt("secondary_unconfigured")
            /\ cause' = "secondary_unconfigured"
            /\ UNCHANGED <<invoice_data, parsing_method, ai_response, ai_calls,
                           stagelog>>
       ELSE \E resp \in AIResponses :
              LET r == parse_invoice_from_text(anthropic_client, resp)
              IN  /\ ai_response' = Some(resp)
                  /\ ai_calls' = ai_calls + 1
                  /\ stagelog' = Append(stagelog,
                                        Stage("secondary_extractor", r.exception = "none"))
                  /\ IF r.exception = "none"
                     THEN /\ invoice_data' = Some(r.value)
                          /\ parsing_method' = Some("Claude AI")
                          /\ pc' = "log_parsed"
                          /\ UNCHANGED <<exception, cause>>
                     ELSE /\ pc' = "failed"
                          /\ exception' = r.exception
                          /\ cause' = "secondary_failed"
                          /\ UNCHANGED <<invoice_data, parsing_method>>
    /\ UNCHANGED <<config, positions, invoice, threads,
                   now, namespace_map, anthropic_client, schema_type,
                   schema_exists, pdf, text, force_ai, output_path, xml_content,
                   validation, file, returned, rules_result, validate_arg,
                   prev_xml, prev_now, enc_now,
                   count, invoices, files, logged>>

\* the "Successfully parsed invoice" log line reads invoice_data.get('number')
LogParsed ==
    /\ pc = "log_parsed"
    /\ IF IsDict(Val(invoice_data))
       THEN /\ pc' = "encode"
            /\ UNCHANGED <<exception, cause>>
       ELSE /\ pc' = "failed"
            /\ exception' = "AttributeError"
            /\ cause' = "secondary_not_object"
    /\ UNCHANGED <<config, positions, invoice, threads,
                   now, namespace_map, anthropic_client, schema_type,
                   schema_exists, pdf, text, force_ai, output_path,
                   invoice_data, parsing_method, xml_content, ai_response,
                   ai_calls, validation, stagelog, file, returned, rules_result,
                   validate_arg, prev_xml, prev_now, enc_now,
                   count, invoices, files, logged>>

\* convert_to_ksef_xml
Encode ==
    /\ pc = "encode"
    /\ LET r == convert_to_ksef_xml(Val(invoice_data), schema_type, now, namespace_map)
       IN  /\ namespace_map' = r.namespace_map
           /\ xml_content' = r.xml
           /\ enc_now' = now
           /\ stagelog' = Append(stagelog, Stage("encode", r.exception = "none"))
           /\ IF r.exception = "none"
              THEN /\ pc' = "validate"
                   /\ UNCHANGED <<exception, cause>>
              ELSE /\ pc' = "failed"
                   /\ exception' = r.exception
                   /\ cause' = "encoder"
    /\ UNCHANGED <<config, positions, invoice, threads,
                   now, anthropic_client, schema_type, schema_exists, pdf, text,
                   force_ai, output_path, invoice_data, parsing_method,
                   ai_response, ai_calls, validation, file, returned,
                   rules_result, validate_arg, prev_xml, prev_now,
                   count, invoices, files, logged>>

\* (mutation of ValidationPasses: the raise on an invalid document is lost)
ValidationAlwaysPasses(r) == TRUE

\* if not is_valid: raise
ValidationPasses(r) == r.is_valid

\* (mutation of Validate: the file is written before the document is validated)
ValidateAfterWrite ==
    /\ pc = "validate"
    /\ file' = IF output_path THEN xml_content ELSE file
    /\ \E outcome \in XsdOutcomes :
          LET r == validate_against_xsd(schema_exists, outcome)
          IN  /\ validation' = Some(r)
              /\ stagelog' = Append(stagelog,
                                    Stage("validate", r.exception = "none" /\ r.is_valid))
              /\ IF r.exception # "none"
                 THEN /\ pc' = "failed"
                      /\ exception' = r.exception
                      /\ cause' = "schema_not_found"
                 ELSE IF ~r.is_valid
                 THEN /\ pc' = "failed"
                      /\ exception' = RaisedAt("validation_failed")
                      /\ cause' = "validation_failed"
                 ELSE /\ pc' = "persist"
                      /\ UNCHANGED <<exception, cause>>
    /\ UNCHANGED <<config, positions, invoice, threads,
                   now, namespace_map, anthropic_client, schema_type,
                   schema_exists, pdf, text, force_ai, output_path,
                   invoice_data, parsing_method, xml_content, ai_response,
                   ai_calls, returned, rules_result, validate_arg, prev_xml,
                   prev_now, enc_now,
                   count, invoices, files, logged>>

\* validate_against_xsd
Validate ==
    /\ pc = "validate"
    /\ \E outcome \in XsdOutcomes :
          LET r == validate_against_xsd(schema_exists, outcome)
          IN  /\ validation' = Some(r)
              /\ stagelog' = Append(stagelog,
                                    Stage("validate", r.exception = "none" /\ r.is_valid))
              /\ IF r.exception # "none"
                 THEN /\ pc' = "failed"
                      /\ exception' = r.exception
                      /\ cause' = "schema_not_found"
                 ELSE IF ~ValidationPasses(r)
                 THEN /\ pc' = "failed"
                      /\ exception' = RaisedAt("validation_failed")
                      /\ cause' = "validation_failed"
                 ELSE /\ pc' = "persist"
                      /\ UNCHANGED <<exception, cause>>
    /\ UNCHANGED <<config, positions, invoice, threads,
                   now, namespace_map, anthropic_client, schema_type,
                   schema_exists, pdf, text, force_ai, output_path,
                   invoice_data, parsing_method, xml_content, ai_response,
                   ai_calls, file, returned, rules_result, validate_arg,
                   prev_xml, prev_now, enc_now,
                   count, invoices, files, logged>>

\* the optional write to output_path, and the return
Persist ==
    /\ pc = "persist"
    /\ IF output_path
       THEN \E write_ok \in BOOLEAN :
              IF write_ok
              THEN /\ file' = xml_content
                   /\ stagelog' = Append(stagelog, Stage("persist", TRUE))
                   /\ returned' = xml_content
                   /\ pc' = "done"
                   /\ UNCHANGED <<exception, cause>>
              ELSE /\ stagelog' = Append(stagelog, Stage("persist", FALSE))
                   /\ pc' = "failed"
                   /\ exception' = "OSError"
                   /\ cause' = "write_failed"
                   /\ UNCHANGED <<file, returned>>
       ELSE /\ returned' = xml_content
            /\ pc' = "done"
            /\ UNCHANGED <<file, stagelog, exception, cause>>
    /\ UNCHANGED <<config, positions, invoice, threads,
                   now, namespace_map, anthropic_client, schema_type,
                   schema_exists, pdf, text, force_ai, output_path,
                   invoice_data, parsing_method, xml_content, ai_response,
                   ai_calls, validation, rules_result, validate_arg, prev_xml,
                   prev_now, enc_now,
                   count, invoices, files, logged>>

\* main: how the command line reports the exception of a failed conversion
MainReport(exc) ==
    IF exc = "FileNotFoundError" THEN "error"
    ELSE IF exc = "ValueError" THEN "error_with_api_key_hint"
    ELSE "error_converting_pdf"

Init ==
    /\ now = 0
    /\ namespace_map = InitialNamespaceMap
    /\ anthropic_client \in BOOLEAN
    /\ schema_type \in SchemaTypes
    /\ schema_exists \in BOOLEAN
    /\ pc = "idle"
    /\ pdf = "ok"
    /\ text = NoText
    /\ force_ai = FALSE
    /\ output_path = FALSE
    /\ invoice_data = None
    /\ parsing_method = None
    /\ xml_content = None
    /\ ai_response = None
    /\ ai_calls = 0
    /\ validation = None
    /\ stagelog = <<>>
    /\ file = None
    /\ returned = None
    /\ exception = "none"
    /\ cause = "none"
    /\ rules_result = None
    /\ validate_arg = TRUE
    /\ prev_xml = None
    /\ prev_now = 0
    /\ enc_now = 0
    /\ config = None
    /\ positions = <<>>
    /\ invoice = None
    /\ threads = <<>>
    /\ count = 0
    /\ invoices = <<>>
    /\ files = <<>>
    /\ logged = <<>>

Next ==
    \/ Call
    \/ ExtractText
    \/ ParseRules
    \/ Fallback
    \/ LogParsed
    \/ Encode
    \/ Validate
    \/ Persist

Spec == Init /\ [][Next]_vars

-----------------------------------------------------------------------------
(* The rule cascade on its own: parse_invoice_with_rules on every text *)

ParseWithRules ==
    /\ pc = "rules_start"
    /\ rules_result' = Some(parse_invoice_with_rules(text))
    /\ pc' = "rules_done"
    /\ UNCHANGED <<config, positions, invoice, threads,
                   now, namespace_map, anthropic_client, schema_type,
                   schema_exists, pdf, text, force_ai, output_path,
                   invoice_data, parsing_method, xml_content, ai_response,
                   ai_calls, validation, stagelog, file, returned, exception,
                   cause, validate_arg, prev_xml, prev_now, enc_now,
                   count, invoices, files, logged>>

InitRules ==
    /\ now = 0
    /\ namespace_map = InitialNamespaceMap
    /\ anthropic_client = FALSE
    /\ schema_type = <<"F","A","2">>
    /\ schema_exists = TRUE
    /\ pc = "rules_start"
    /\ pdf = "ok"
    /\ text \in RuleTexts
    /\ force_ai = FALSE
    /\ output_path = FALSE
    /\ invoice_data = None
    /\ parsing_method = None
    /\ xml_content = None
    /\ ai_response = None
    /\ ai_calls = 0
    /\ validation = None
    /\ stagelog = <<>>
    /\ file = None
    /\ returned = None
    /\ exception = "none"
    /\ cause = "none"
    /\ rules_result = None
    /\ validate_arg = TRUE
    /\ prev_xml = None
    /\ prev_now = 0
    /\ enc_now = 0
    /\ config = None
    /\ positions = <<>>
    /\ invoice = None
    /\ threads = <<>>
    /\ count = 0
    /\ invoices = <<>>
    /\ files = <<>>
    /\ logged = <<>>

NextRules == ParseWithRules

SpecRules == InitRules /\ [][NextRules]_vars

-----------------------------------------------------------------------------
(* The encoder and the save operations on their own, under a running clock *)

\* the wall clock advances
Tick ==
    /\ now < MaxClock
    /\ now' = now + 1
    /\ UNCHANGED <<config, positions, invoice, threads,
                   namespace_map, anthropic_client, schema_type, schema_exists,
                   pc, pdf, text, force_ai, output_path, invoice_data,
                   parsing_method, xml_content, ai_response, ai_calls,
                   validation, stagelog, file, returned, exception, cause,
                   rules_result, validate_arg, prev_xml, prev_now, enc_now,
                   count, invoices, files, logged>>

\* convert_to_ksef_xml (invoice_pdf_to_ksef_xml.py), called up to twice
ConvertToKsefXml ==
    /\ pc \in {"enc_idle", "enc_once"}
    /\ LET r == convert_to_ksef_xml(Val(invoice_data), schema_type, now, namespace_map)
       IN  /\ namespace_map' = r.namespace_map
           /\ xml_content' = r.xml
           /\ exception' = r.exception
    /\ enc_now' = now
    /\ prev_xml' = xml_content
    /\ prev_now' = enc_now
    /\ pc' = IF pc = "enc_idle" THEN "enc_once" ELSE "enc_twice"
    /\ UNCHANGED <<config, positions, invoice, threads,
                   now, anthropic_client, schema_type, schema_exists, pdf, text,
                   force_ai, output_path, invoice_data, parsing_method,
                   ai_response, ai_calls, validation, stagelog, file, returned,
                   cause, rules_result, validate_arg,
                   count, invoices, files, logged>>

\* save_ksef_xml (invoice_pdf_to_ksef_xml.py): encode, validate if asked, write
SaveKsefXml ==
    /\ pc = "enc_idle"
    /\ \E v \in BOOLEAN, outcome \in XsdOutcomes :
          LET r == convert_to_ksef_xml(Val(invoice_data), schema_type, now, namespace_map)
              val == validate_against_xsd(schema_exists, outcome)
          IN  /\ validate_arg' = v
              /\ namespace_map' = r.namespace_map
              /\ xml_content' = r.xml
              /\ enc_now' = now
              /\ IF r.exception # "none"
                 THEN /\ pc' = "save_failed"
                      /\ exception' = r.exception
                      /\ UNCHANGED <<validation, file>>
                 ELSE IF v /\ val.exception # "none"
                 THEN /\ pc' = "save_failed"
                      /\ exception' = val.exception
                      /\ validation' = Some(val)
                      /\ file' = file
                 ELSE IF v /\ ~val.is_valid
                 THEN /\ pc' = "save_failed"
                      /\ exception' = RaisedAt("save_validation_failed")
                      /\ validation' = Some(val)
                      /\ file' = file
                 ELSE /\ pc' = "saved"
                      /\ exception' = exception
                      /\ validation' = IF v THEN Some(val) ELSE None
                      /\ file' = r.xml
    /\ UNCHANGED <<config, positions, invoice, threads,
                   now, anthropic_client, schema_type, schema_exists, pdf, text,
                   force_ai, output_path, invoice_data, parsing_method,
                   ai_response, ai_calls, stagelog, returned, cause,
                   rules_result, prev_xml, prev_now,
                   count, invoices, files, logged>>

\* save_ksef_xml (ksef_xml_converter.py), as generate_last_10_with_xml.py
\* calls it for every invoice: encode, write
LegacySaveKsefXml ==
    /\ pc = "enc_idle"
    /\ LET r == legacy_convert_to_ksef_xml(Val(invoice_data), now, namespace_map)
       IN  /\ namespace_map' = r.namespace_map
           /\ xml_content' = r.xml
           /\ IF r.exception # "none"
              THEN /\ pc' = "save_failed"
                   /\ exception' = r.exception
                   /\ file' = file
              ELSE /\ pc' = "saved"
                   /\ exception' = exception
                   /\ file' = r.xml
    /\ enc_now' = now
    /\ UNCHANGED <<config, positions, invoice, threads,
                   now, anthropic_client, schema_type, schema_exists, pdf, text,
                   force_ai, output_path, invoice_data, parsing_method,
                   ai_response, ai_calls, validation, stagelog, returned, cause,
                   rules_result, validate_arg, prev_xml, prev_now,
                   count, invoices, files, logged>>

InitEncode ==
    /\ now = 0
    /\ namespace_map = InitialNamespaceMap
    /\ anthropic_client = FALSE
    /\ schema_type \in SchemaTypes
    /\ schema_exists \in BOOLEAN
    /\ pc = "enc_idle"
    /\ pdf = "ok"
    /\ text = NoText
    /\ force_ai = FALSE
    /\ output_path = FALSE
    /\ invoice_data \in {Some(d) : d \in EncInvoices}
    /\ parsing_method = None
    /\ xml_content = None
    /\ ai_response = None
    /\ ai_calls = 0
    /\ validation = None
    /\ stagelog = <<>>
    /\ file = None
    /\ returned = None
    /\ exception = "none"
    /\ cause = "none"
    /\ rules_result = None
    /\ validate_arg = TRUE
    /\ prev_xml = None
    /\ prev_now = 0
    /\ enc_now = 0
    /\ config = None
    /\ positions = <<>>
    /\ invoice = None
    /\ threads = <<>>
    /\ count = 0
    /\ invoices = <<>>
    /\ files = <<>>
    /\ logged = <<>>

NextEncode ==
    \/ Tick
    \/ ConvertToKsefXml
    \/ SaveKsefXml
    \/ LegacySaveKsefXml

SpecEncode == InitEncode /\ [][NextEncode]_vars

-----------------------------------------------------------------------------
(* generate_invoices.py: InvoiceGenerator.generate_positions and           *)
(* generate_invoice.  Amounts are counted in hundredths (grosze): the      *)
(* floats of the code hold values of two decimals, which round() restores  *)
(* after every operation.  The price range of a product is whatever the *)
(* configuration holds, so its two ends are counted in thousandths.       *)

\* largest unit price of the ordinary product, in hundredths
MaxPrice == 6
\* largest max_quantity of the configurations
MaxQuantity == 3

DigitVal(c) == (CHOOSE i \in 1..10 : DigitChar[i] = c) - 1

\* str(n) of an int
RECURSIVE NatStr(_)
NatStr(n) ==
    IF n < 10 THEN <<DigitChar[n + 1]>>
    ELSE NatStr(n \div 10) \o <<DigitChar[(n % 10) + 1]>>

IntStr(n) == IF n < 0 THEN <<"-">> \o NatStr(0 - n) ELSE NatStr(n)

\* int(s) of a digit string
RECURSIVE NatVal(_)
NatVal(s) ==
    IF s = <<>> THEN 0
    ELSE 10 * NatVal(SubSeq(s, 1, Len(s) - 1)) + DigitVal(s[Len(s)])

\* str(x) of the float x = c / 100: the shortest decimal that reads back
\* as x, with at least one fraction digit ('100.0', '0.46', '2.3')
StrFloat(c) ==
    LET a == IF c < 0 THEN 0 - c ELSE c
        frac == a % 100
    IN  (IF c < 0 THEN <<"-">> ELSE <<>>)
        \o NatStr(a \div 100) \o <<".">>
        \o (IF frac % 10 = 0
            THEN <<DigitChar[(frac \div 10) + 1]>>
            ELSE <<DigitChar[(frac \div 10) + 1], DigitChar[(frac % 10) + 1]>>)

\* float(s), in hundredths, of a decimal string of at most two fraction digits
Float(s) ==
    LET neg == s # <<>> /\ Head(s) = "-"
        parts == Split(IF neg THEN Tail(s) ELSE s, {"."})
        frac == IF Len(parts) < 2 \/ parts[2] = <<>> THEN 0
                ELSE IF Len(parts[2]) = 1 THEN 10 * DigitVal(parts[2][1])
                ELSE NatVal(SubSeq(parts[2], 1, 2))
        a == 100 * NatVal(parts[1]) + frac
    IN  IF neg THEN 0 - a ELSE a

\* round(n / d, 0) for d > 0: the nearest integer; when n / d lies halfway,
\* which neighbour the float arithmetic yields depends on the binary value,
\* and both are kept
Round(n, d) ==
    {q \in {n \div d, (n \div d) + 1} :
        2 * (IF n < q * d THEN q * d - n ELSE n - q * d) <= d}

\* price_tax = round(price_net * tax_rate / 100, 2)
price_tax_of(price_net, tax_rate) == Round(price_net * tax_rate, 100)

\* price_gross = round(price_net + price_tax, 2)
price_gross_of(price_net, price_tax) == price_net + price_tax

\* (mutation of LineTotals: the line's gross total is derived from the
\* line's net total and the rate, not from the rounded unit gross)
LineTotalsGrossFromLineNet(price_net, price_tax, price_gross, quantity, tax_rate) ==
    [total_price_net |-> price_net * quantity,
     total_price_tax |-> price_tax * quantity,
     total_price_gross |->
        CHOOSE g \in Round(price_net * quantity * (100 + tax_rate), 100) : TRUE]

\* (mutation of LineTotals: the line's tax is computed on the line's net
\* total and rounded last, not on the rounded unit tax)
LineTotalsTaxOnLineNet(price_net, price_tax, price_gross, quantity, tax_rate) ==
    LET line_tax == CHOOSE x \in Round(price_net * quantity * tax_rate, 100) : TRUE
    IN  [total_price_net |-> price_net * quantity,
         total_price_tax |-> line_tax,
         total_price_gross |-> price_net * quantity + line_tax]

\* the three line totals: the rounded unit value times the quantity
LineTotals(price_net, price_tax, price_gross, quantity, tax_rate) ==
    [total_price_net |-> price_net * quantity,
     total_price_tax |-> price_tax * quantity,
     total_price_gross |-> price_gross * quantity]

\* the dict of one position; every amount goes through str()
Position(product, price_net, price_tax, quantity, tax_rate, quantity_unit) ==
    LET price_gross == price_gross_of(price_net, price_tax)
        t == LineTotals(price_net, price_tax, price_gross, quantity, tax_rate)
    IN  [name |-> product.name,
         price_net |-> StrFloat(price_net),
         quantity |-> StrFloat(100 * quantity),
         total_price_gross |-> StrFloat(t.total_price_gross),
         total_price_net |-> StrFloat(t.total_price_net),
         additional_info |-> EMPTY,
         quantity_unit |-> quantity_unit,
         tax |-> IntStr(tax_rate),
         price_gross |-> StrFloat(price_gross),
         price_tax |-> StrFloat(price_tax),
         total_price_tax |-> StrFloat(t.total_price_tax),
         discount |-> None,
         discount_percent |-> None,
         tax2 |-> <<"0">>,
         code |-> None]

\* sum(float(p[key]) for p in positions)
RECURSIVE SumOf(_, _)
SumOf(ps, key) ==
    IF ps = <<>> THEN 0 ELSE Float(Head(ps)[key]) + SumOf(Tail(ps), key)

\* (mutation of InvoiceTotals: the unit amounts are summed, not the line totals)
InvoiceTotalsOfUnitAmounts(ps) ==
    [price_net |-> SumOf(ps, "price_net"),
     price_tax |-> SumOf(ps, "price_tax"),
     price_gross |-> SumOf(ps, "price_gross")]

\* the invoice-level totals, each the sum of the line totals
InvoiceTotals(ps) ==
    [price_net |-> SumOf(ps, "total_price_net"),
     price_tax |-> SumOf(ps, "total_price_tax"),
     price_gross |-> SumOf(ps, "total_price_gross")]

\* the calendar of datetime and timedelta
DaysInMonth(y, m) ==
    IF m = 2 THEN (IF y % 4 = 0 /\ (y % 100 # 0 \/ y % 400 = 0) THEN 29 ELSE 28)
    ELSE IF m \in {4, 6, 9, 11} THEN 30 ELSE 31

\* date + timedelta(days=n), n >= 0
RECURSIVE AddDays(_, _)
AddDays(date, n) ==
    IF n = 0 THEN date
    ELSE IF date.day < DaysInMonth(date.year, date.month)
    THEN AddDays([date EXCEPT !.day = @ + 1], n - 1)
    ELSE IF date.month < 12
    THEN AddDays([date EXCEPT !.month = @ + 1, !.day = 1], n - 1)
    ELSE AddDays([year |-> date.year + 1, month |-> 1, day |-> 1], n - 1)

\* date.strftime('%Y-%m-%d')
DateStr(date) ==
    NatStr(date.year) \o <<"-">> \o ZFill2(NatStr(date.month))
        \o <<"-">> \o ZFill2(NatStr(date.day))

\* (mutation of number: the sequence number is left out)
number_by_month(invoice_number, date) ==
    IntStr(date.month) \o <<"/">> \o IntStr(date.year)

\* f'{invoice_number}/{date.month}/{date.year}'
number(invoice_number, date) ==
    IntStr(invoice_number) \o <<"/">> \o IntStr(date.month)
        \o <<"/">> \o IntStr(date.year)

\* the dict generate_invoice builds, before the seller's and the buyer's
\* keys are merged in; the keys that hold a literal are left out
generate_invoice(cfg, invoice_number, date, ps) ==
    LET t == InvoiceTotals(ps)
    IN  [number |-> number(invoice_number, date),
         sell_date |-> DateStr(date),
         payment_type |-> cfg.invoice.payment_type,
         price_net |-> StrFloat(t.price_net),
         price_gross |-> StrFloat(t.price_gross),
         currency |-> cfg.invoice.currency,
         kind |-> <<"v","a","t">>,
         payment_to |-> DateStr(AddDays(date, cfg.invoice.payment_days)),
         paid |-> StrFloat(t.price_gross),
         issue_date |-> DateStr(date),
         price_tax |-> StrFloat(t.price_tax),
         positions |-> ps]

\* the configurations the generator is run under: the product list, the
\* quantity range and the tax rate vary, and the file may hold any number
\* a product of the catalog, its price range in thousandths
Product(name, lo, hi) == [name |-> name, price_net_min |-> lo, price_net_max |-> hi]

\* random.uniform(a, b): a value between the two, whichever is the larger
Uniform(a, b) == IF a <= b THEN a..b ELSE b..a

ProductLists ==
    {<<Product("A", 0, 10 * MaxPrice)>>,
     <<Product("A", 100000, 100000)>>,
     <<Product("A", 10, 20), Product("B", 30, 30)>>,
     <<Product("A", 0 - 20, 10)>>,
     <<Product("A", 99999, 99999)>>,
     <<Product("B", 30, 11)>>}

QuantityRanges == {<<1, MaxQuantity>>, <<2, 2>>, <<0, 1>>}

TaxRates == {0, 23, 50, 150}

Configs ==
    {[products |-> pl,
      generation |-> [min_positions |-> 1, max_positions |-> 2,
                      min_quantity |-> q[1], max_quantity |-> q[2]],
      invoice |-> [tax_rate |-> r, payment_days |-> 7,
                   quantity_unit |-> <<"s","z","t">>,
                   currency |-> <<"P","L","N">>,
                   payment_type |-> <<"t","r","a","n","s","f","e","r">>]] :
        pl \in ProductLists, q \in QuantityRanges, r \in TaxRates}

\* the dates and numbers generate_invoice is called with
Dates ==
    {[year |-> 2025, month |-> 4, day |-> 2],
     [year |-> 2024, month |-> 12, day |-> 28]}

InvoiceNumbers == {1, 91}

\* one turn of the loop of generate_positions: random.choice, randint,
\* uniform rounded to two places, and the derived amounts
GeneratePosition ==
    /\ pc = "gen_positions"
    /\ Len(positions) < Val(config).generation.max_positions
    /\ \E i \in 1..Len(Val(config).products) :
          LET product == Val(config).products[i]
              gen == Val(config).generation
              tax_rate == Val(config).invoice.tax_rate
          IN  \E quantity \in gen.min_quantity..gen.max_quantity,
                 u \in Uniform(product.price_net_min, product.price_net_max) :
                 \E price_net \in Round(u, 10) :
                 \E price_tax \in price_tax_of(price_net, tax_rate) :
                    positions' = Append(positions,
                        Position(product, price_net, price_tax, quantity, tax_rate,
                                 Val(config).invoice.quantity_unit))
    /\ UNCHANGED <<now, namespace_map, anthropic_client, schema_type,
                   schema_exists, pc, pdf, text, force_ai, output_path,
                   invoice_data, parsing_method, xml_content, ai_response,
                   ai_calls, validation, stagelog, file, returned, exception,
                   cause, rules_result, validate_arg, prev_xml, prev_now,
                   enc_now, config, invoice, threads,
                   count, invoices, files, logged>>

\* generate_invoice, once generate_positions has returned
GenerateInvoice ==
    /\ pc = "gen_positions"
    /\ Len(positions) >= Val(config).generation.min_positions
    /\ \E n \in InvoiceNumbers, date \in Dates :
          invoice' = Some(generate_invoice(Val(config), n, date, positions))
    /\ pc' = "gen_done"
    /\ UNCHANGED <<now, namespace_map, anthropic_client, schema_type,
                   schema_exists, pdf, text, force_ai, output_path,
                   invoice_data, parsing_method, xml_content, ai_response,
                   ai_calls, validation, stagelog, file, returned, exception,
                   cause, rules_result, validate_arg, prev_xml, prev_now,
                   enc_now, config, positions, threads,
                   count, invoices, files, logged>>

InitGenerate ==
    /\ now = 0
    /\ namespace_map = InitialNamespaceMap
    /\ anthropic_client = FALSE
    /\ schema_type = <<"F","A","2">>
    /\ schema_exists = TRUE
    /\ pc = "gen_positions"
    /\ pdf = "ok"
    /\ text = NoText
    /\ force_ai = FALSE
    /\ output_path = FALSE
    /\ invoice_data = None
    /\ parsing_method = None
    /\ xml_content = None
    /\ ai_response = None
    /\ ai_calls = 0
    /\ validation = None
    /\ stagelog = <<>>
    /\ file = None
    /\ returned = None
    /\ exception = "none"
    /\ cause = "none"
    /\ rules_result = None
    /\ validate_arg = TRUE
    /\ prev_xml = None
    /\ prev_now = 0
    /\ enc_now = 0
    /\ config \in {Some(c) : c \in Configs}
    /\ positions = <<>>
    /\ invoice = None
    /\ threads = <<>>
    /\ count = 0
    /\ invoices = <<>>
    /\ files = <<>>
    /\ logged = <<>>

NextGenerate ==
    \/ GeneratePosition
    \/ GenerateInvoice

SpecGenerate == InitGenerate /\ [][NextGenerate]_vars

-----------------------------------------------------------------------------
(* generate_invoices and save_invoices: a batch of count invoices is       *)
(* generated, then written to the output directory one file per invoice,   *)
(* each write followed by its "Invoice generated successfully" record.     *)

\* largest batch
MaxCount == 3

\* str.replace(old, new), old not empty
RECURSIVE Replace(_, _, _)
Replace(s, old, new) ==
    IF Len(s) < Len(old) THEN s
    ELSE IF SubSeq(s, 1, Len(old)) = old
    THEN new \o Replace(SubSeq(s, Len(old) + 1, Len(s)), old, new)
    ELSE <<s[1]>> \o Replace(Tail(s), old, new)

\* date - timedelta(days=n), n >= 0
RECURSIVE SubDays(_, _)
SubDays(date, n) ==
    IF n = 0 THEN date
    ELSE IF date.day > 1
    THEN SubDays([date EXCEPT !.day = @ - 1], n - 1)
    ELSE IF date.month > 1
    THEN SubDays([date EXCEPT !.month = @ - 1,
                              !.day = DaysInMonth(date.year, date.month - 1)], n - 1)
    ELSE SubDays([year |-> date.year - 1, month |-> 12, day |-> 31], n - 1)

\* f"faktura-{invoice['number'].replace('/', '-')}.{output_format}"
filename(inv, output_format) ==
    <<"f","a","k","t","u","r","a","-">> \o Replace(inv.number, <<"/">>, <<"-">>)
        \o <<".">> \o output_format

\* the configurations a batch is run under: one product at 100.00, quantity
\* 2, tax 23, and the output format the file holds
BatchConfigs ==
    {[c EXCEPT !.generation = c.generation @@ [output_format |-> f]] :
        c \in {c \in Configs : /\ c.products = <<Product("A", 100000, 100000)>>
                               /\ c.generation.min_quantity = 2
                               /\ c.invoice.tax_rate = 23},
        f \in {<<"j","s","o","n">>, <<"p","d","f">>, <<"x","m","l">>, <<"c","s","v">>}}

\* what generate_positions returns under these configurations
BatchPositions ==
    LET p == Position(Product("A", 100000, 100000), 10000, 2300, 2, 23, <<"s","z","t">>)
    IN  {<<p>>, <<p, p>>}

\* one turn of the loop of generate_invoices: the date is the start date
\* less 0 to 30 days, the number is the loop index
GenerateNextInvoice ==
    /\ pc = "batch_generate"
    /\ Len(invoices) < count
    /\ \E offset \in {0, 1, 30}, ps \in BatchPositions :
          LET start_date == [year |-> 2025, month |-> 1, day |-> 1]
              invoice_date == SubDays(start_date, offset)
          IN  invoices' = Append(invoices,
                  generate_invoice(Val(config), Len(invoices) + 1, invoice_date, ps))
    /\ UNCHANGED <<now, namespace_map, anthropic_client, schema_type,
                   schema_exists, pc, pdf, text, force_ai, output_path,
                   invoice_data, parsing_method, xml_content, ai_response,
                   ai_calls, validation, stagelog, file, returned, exception,
                   cause, rules_result, validate_arg, prev_xml, prev_now,
                   enc_now, config, positions, invoice, threads, count, files,
                   logged>>

\* generate_invoices returns the list; save_invoices is called with it
ReturnInvoices ==
    /\ pc = "batch_generate"
    /\ Len(invoices) >= count
    /\ pc' = "batch_save"
    /\ UNCHANGED <<now, namespace_map, anthropic_client, schema_type,
                   schema_exists, pdf, text, force_ai, output_path,
                   invoice_data, parsing_method, xml_content, ai_response,
                   ai_calls, validation, stagelog, file, returned, exception,
                   cause, rules_result, validate_arg, prev_xml, prev_now,
                   enc_now, config, positions, invoice, threads, count,
                   invoices, files, logged>>

\* one turn of the loop of save_invoices.  PDF generation may raise; the
\* exception leaves save_invoices
SaveInvoice ==
    /\ pc = "batch_save"
    /\ Len(logged) < Len(invoices)
    /\ LET inv == invoices[Len(logged) + 1]
           output_format == Val(config).generation.output_format
           name == filename(inv, output_format)
           record(filepath) == [filepath |-> filepath, invoice_number |-> inv.number]
       IN  IF output_format = <<"j","s","o","n">>
           THEN /\ files' = (name :> [format |-> "json", invoice |-> inv]) @@ files
                /\ logged' = Append(logged, record(name))
                /\ UNCHANGED <<pc, exception>>
           ELSE IF output_format = <<"p","d","f">>
           THEN \E ok \in BOOLEAN :
                   IF ok
                   THEN /\ files' = (name :> [format |-> "pdf", invoice |-> inv]) @@ files
                        /\ logged' = Append(logged, record(name))
                        /\ UNCHANGED <<pc, exception>>
                   ELSE /\ pc' = "batch_failed"
                        /\ exception' = "Exception"
                        /\ UNCHANGED <<files, logged>>
           ELSE IF output_format = <<"x","m","l">>
           THEN LET filepath == Replace(name, <<".","x","m","l">>, <<".","j","s","o","n">>)
                IN  /\ files' = (filepath :> [format |-> "json", invoice |-> inv]) @@ files
                    /\ logged' = Append(logged, record(filepath))
                    /\ UNCHANGED <<pc, exception>>
           ELSE /\ logged' = Append(logged, record(name))
                /\ UNCHANGED <<files, pc, exception>>
    /\ UNCHANGED <<now, namespace_map, anthropic_client, schema_type,
                   schema_exists, pdf, text, force_ai, output_path,
                   invoice_data, parsing_method, xml_content, ai_response,
                   ai_calls, validation, stagelog, file, returned, cause,
                   rules_result, validate_arg, prev_xml, prev_now, enc_now,
                   config, positions, invoice, threads, count, invoices>>

\* save_invoices returns; main reports the batch
FinishBatch ==
    /\ pc = "batch_save"
    /\ Len(logged) = Len(invoices)
    /\ pc' = "batch_done"
    /\ UNCHANGED <<now, namespace_map, anthropic_client, schema_type,
                   schema_exists, pdf, text, force_ai, output_path,
                   invoice_data, parsing_method, xml_content, ai_response,
                   ai_calls, validation, stagelog, file, returned, exception,
                   cause, rules_result, validate_arg, prev_xml, prev_now,
                   enc_now, config, positions, invoice, threads, count,
                   invoices, files, logged>>

InitBatch ==
    /\ now = 0
    /\ namespace_map = InitialNamespaceMap
    /\ anthropic_client = FALSE
    /\ schema_type = <<"F","A","2">>
    /\ schema_exists = TRUE
    /\ pc = "batch_generate"
    /\ pdf = "ok"
    /\ text = NoText
    /\ force_ai = FALSE
    /\ output_path = FALSE
    /\ invoice_data = None
    /\ parsing_method = None
    /\ xml_content = None
    /\ ai_response = None
    /\ ai_calls = 0
    /\ validation = None
    /\ stagelog = <<>>
    /\ file = None
    /\ returned = None
    /\ exception = "none"
    /\ cause = "none"
    /\ rules_result = None
    /\ validate_arg = TRUE
    /\ prev_xml = None
    /\ prev_now = 0
    /\ enc_now = 0
    /\ config \in {Some(c) : c \in BatchConfigs}
    /\ positions = <<>>
    /\ invoice = None
    /\ threads = <<>>
    /\ count \in 0..MaxCount
    /\ invoices = <<>>
    /\ files = <<>>
    /\ logged = <<>>

NextBatch ==
    \/ GenerateNextInvoice
    \/ ReturnInvoices
    \/ SaveInvoice
    \/ FinishBatch

SpecBatch == InitBatch /\ [][NextBatch]_vars

-----------------------------------------------------------------------------
(* Two conversions side by side, each in a thread of its own with its own  *)
(* converter, document and context.  What they share is the process:      *)
(* xml.etree's prefix registry, which register_namespace rewrites in two   *)
(* statements (delete the clashing entries, then set the prefix) and which *)
(* the serializer reads.  correlation_id_var is a ContextVar: every thread *)
(* has its own value.                                                      *)

\* the register_namespace calls of convert_to_ksef_xml, in order
Registrations == << <<"", "ksef">>, <<"xsi", "xsi">>, <<"xsd", "xsd">> >>

\* set_correlation_id(): a fresh id, set in the thread's own context
ThreadSetCorrelationId ==
    \E t \in DOMAIN threads :
       /\ threads[t].pc = "start"
       /\ threads' = [threads EXCEPT ![t].pc = "unregister",
                                     ![t].correlation_id = Some(t)]
       /\ UNCHANGED namespace_map
       /\ UNCHANGED <<now, anthropic_client, schema_type, schema_exists, pc, pdf,
                      text, force_ai, output_path, invoice_data, parsing_method,
                      xml_content, ai_response, ai_calls, validation, stagelog,
                      file, returned, exception, cause, rules_result,
                      validate_arg, prev_xml, prev_now, enc_now, config,
                      positions, invoice,
                      count, invoices, files, logged>>

\* register_namespace, the deleting loop
ThreadUnregister ==
    \E t \in DOMAIN threads :
       /\ threads[t].pc = "unregister"
       /\ LET r == Registrations[threads[t].reg]
          IN  namespace_map' = UnregisterClashes(namespace_map, r[1], r[2])
       /\ threads' = [threads EXCEPT ![t].pc = "register"]
       /\ UNCHANGED <<now, anthropic_client, schema_type, schema_exists, pc, pdf,
                      text, force_ai, output_path, invoice_data, parsing_method,
                      xml_content, ai_response, ai_calls, validation, stagelog,
                      file, returned, exception, cause, rules_result,
                      validate_arg, prev_xml, prev_now, enc_now, config,
                      positions, invoice,
                      count, invoices, files, logged>>

\* register_namespace, the assignment
ThreadRegister ==
    \E t \in DOMAIN threads :
       /\ threads[t].pc = "register"
       /\ LET r == Registrations[threads[t].reg]
          IN  namespace_map' = SetPrefix(namespace_map, r[1], r[2])
       /\ threads' = [threads EXCEPT
                        ![t].pc = IF threads[t].reg < Len(Registrations)
                                  THEN "unregister" ELSE "serialize",
                        ![t].reg = IF threads[t].reg < Len(Registrations)
                                   THEN @ + 1 ELSE @]
       /\ UNCHANGED <<now, anthropic_client, schema_type, schema_exists, pc, pdf,
                      text, force_ai, output_path, invoice_data, parsing_method,
                      xml_content, ai_response, ai_calls, validation, stagelog,
                      file, returned, exception, cause, rules_result,
                      validate_arg, prev_xml, prev_now, enc_now, config,
                      positions, invoice,
                      count, invoices, files, logged>>

\* the elements are built and ET.tostring writes them under the registry
\* as it is now
ThreadSerialize ==
    \E t \in DOMAIN threads :
       /\ threads[t].pc = "serialize"
       /\ threads' = [threads EXCEPT
                        ![t].pc = "done",
                        ![t].xml =
                           IF MissingKeys(threads[t].invoice_data, encoder_keys) # <<>>
                           THEN None
                           ELSE Some(Document(threads[t].invoice_data,
                                              threads[t].schema_type, now,
                                              namespace_map))]
       /\ UNCHANGED namespace_map
       /\ UNCHANGED <<now, anthropic_client, schema_type, schema_exists, pc, pdf,
                      text, force_ai, output_path, invoice_data, parsing_method,
                      xml_content, ai_response, ai_calls, validation, stagelog,
                      file, returned, exception, cause, rules_result,
                      validate_arg, prev_xml, prev_now, enc_now, config,
                      positions, invoice,
                      count, invoices, files, logged>>

ThreadStart ==
    {[pc |-> "start", reg |-> 1, correlation_id |-> None, xml |-> None,
      invoice_data |-> d, schema_type |-> st] :
        d \in {AIComplete, AINotFound, AIKeysLeftOut}, st \in SchemaTypes}

InitConcurrent ==
    /\ now = 0
    /\ namespace_map \in {InitialNamespaceMap, RegisterNamespaces(InitialNamespaceMap)}
    /\ anthropic_client = FALSE
    /\ schema_type = <<"F","A","2">>
    /\ schema_exists = TRUE
    /\ pc = "threads"
    /\ pdf = "ok"
    /\ text = NoText
    /\ force_ai = FALSE
    /\ output_path = FALSE
    /\ invoice_data = None
    /\ parsing_method = None
    /\ xml_content = None
    /\ ai_response = None
    /\ ai_calls = 0
    /\ validation = None
    /\ stagelog = <<>>
    /\ file = None
    /\ returned = None
    /\ exception = "none"
    /\ cause = "none"
    /\ rules_result = None
    /\ validate_arg = TRUE
    /\ prev_xml = None
    /\ prev_now = 0
    /\ enc_now = 0
    /\ config = None
    /\ positions = <<>>
    /\ invoice = None
    /\ threads \in [1..2 -> ThreadStart]
    /\ count = 0
    /\ invoices = <<>>
    /\ files = <<>>
    /\ logged = <<>>

NextConcurrent ==
    \/ ThreadSetCorrelationId
    \/ ThreadUnregister
    \/ ThreadRegister
    \/ ThreadSerialize

SpecConcurrent == InitConcurrent /\ [][NextConcurrent]_vars

-----------------------------------------------------------------------------
(* Properties *)

RulesRan == rules_result # None
RulesSucceeded == RulesRan /\ Val(rules_result)[2]
RulesFailed == RulesRan /\ ~Val(rules_result)[2]

\* the call is past text extraction and past the fallback decision
PastFallback ==
    \/ pc \in {"log_parsed", "encode", "validate", "persist", "done"}
    \/ pc = "failed" /\ cause \notin {"missing_document", "unreadable_document"}

ValidationOk ==
    /\ validation # None
    /\ Val(validation).exception = "none"
    /\ Val(validation).is_valid

\* C1: in a conversion that got past text extraction, the secondary
\* extractor is invoked if and only if force_ai is set or the rule cascade
\* reported failure, and a client is configured; it is never invoked after
\* a successful cascade, and not before the cascade has been tried.
C1_FallbackGating ==
    /\ RulesSucceeded => ai_calls = 0
    /\ pc \in {"idle", "extract_text", "parse_rules", "fallback"} => ai_calls = 0
    /\ PastFallback =>
          (ai_calls > 0 <=> ((force_ai \/ RulesFailed) /\ anthropic_client))

C1_Witness ==
    /\ pc = "done"
    /\ ~force_ai
    /\ RulesFailed
    /\ anthropic_client
    /\ ai_calls = 1

\* C2: on the failure paths of the conversion (missing document, failed or
\* unconfigured secondary extractor, encoder failure, schema validation
\* failure, missing XSD) nothing is returned to the caller and nothing has
\* been written to the output path; whenever validation did not report ok,
\* no XML is returned and none is written.
C2_NoPartialOutput ==
    /\ (pc = "failed" /\ cause \in {"missing_document", "secondary_failed",
                                    "secondary_unconfigured", "secondary_not_object",
                                    "encoder", "validation_failed",
                                    "schema_not_found"})
          => (returned = None /\ file = None)
    /\ (validation # None /\ ~ValidationOk) => (returned = None /\ file = None)
    /\ pc # "done" => returned = None

C2_Witness ==
    /\ pc = "failed"
    /\ cause = "validation_failed"
    /\ output_path
    /\ xml_content # None
    /\ file = None
    /\ returned = None

\* C3: a save writes the output file only after validate returned ok,
\* unless the caller disabled validation; this is stated of every
\* save_ksef_xml of the repository, the one the batch script calls included.
C3_SaveValidatesFirst ==
    file # None => (~validate_arg \/ ValidationOk)

NineRequired ==
    {"seller_name", "seller_tax_no", "buyer_name", "buyer_tax_no", "number",
     "issue_date", "price_net", "price_tax", "price_gross"}

\* C4: if after the rule cascade one of the nine required fields is empty
\* or still the placeholder '0.00', parse_invoice_with_rules reports failure.
C4_CompletenessGate ==
    rules_result # None =>
        LET d == Val(rules_result)[1]
        IN  (\E f \in NineRequired : d[f] = EMPTY \/ d[f] = <<"0",".","0","0">>)
                => ~Val(rules_result)[2]

C4_Witness ==
    /\ rules_result # None
    /\ ~Val(rules_result)[2]
    /\ Val(rules_result)[1].seller_name # EMPTY
    /\ Val(rules_result)[1].buyer_tax_no # EMPTY
    /\ Val(rules_result)[1].number # EMPTY
    /\ Val(rules_result)[1].issue_date # EMPTY
    /\ Val(rules_result)[1].price_gross = <<"0",".","0","0">>

\* C5: when the rule cascade failed, its partial record is dropped: the
\* record the conversion goes on with, and the one it encodes, is exactly
\* the value the secondary extractor returned.
C5_NoBlending ==
    /\ (RulesFailed /\ pc = "fallback") => invoice_data = None
    /\ (RulesFailed /\ invoice_data # None) =>
          /\ ai_response # None
          /\ invoice_data = Some(Val(ai_response).value)
          /\ parsing_method = Some("Claude AI")
    /\ (RulesFailed /\ xml_content # None) =>
          xml_content = convert_to_ksef_xml(Val(ai_response).value, schema_type,
                                            enc_now, InitialNamespaceMap).xml

C5_Witness ==
    /\ pc = "done"
    /\ RulesFailed
    /\ Val(rules_result)[1].seller_name # EMPTY
    /\ Val(rules_result)[1].price_gross # <<"0",".","0","0">>
    /\ returned # None
    /\ invoice_data = Some(AIComplete)

StageRank(name) ==
    CASE name = "text_extraction" -> 1
      [] name = "rule_cascade" -> 2
      [] name = "secondary_extractor" -> 3
      [] name = "encode" -> 4
      [] name = "validate" -> 5
      [] name = "persist" -> 6

\* C6: the stages of one conversion run in the order text extraction, rule
\* cascade, secondary extractor, encoding, validation, persistence, each at
\* most once; a stage starts only if the stages before it succeeded (the
\* secondary extractor: only after the cascade failed or was skipped), and
\* the file is written only after validation reported ok.
C6_StageOrder ==
    /\ \A i, j \in 1..Len(stagelog) :
          i < j => StageRank(stagelog[i].stage) < StageRank(stagelog[j].stage)
    /\ \A i \in 1..(Len(stagelog) - 1) :
          \/ stagelog[i].ok
          \/ /\ stagelog[i].stage = "rule_cascade"
             /\ stagelog[i + 1].stage = "secondary_extractor"
    /\ \A i \in 1..(Len(stagelog) - 1) :
          stagelog[i + 1].stage = "secondary_extractor"
              => (stagelog[i].stage = "text_extraction" \/ ~stagelog[i].ok)
    /\ (\E i \in 1..Len(stagelog) : stagelog[i].stage = "persist") => ValidationOk
    /\ file # None => ValidationOk
    /\ ai_calls <= 1

C6_Witness ==
    /\ pc = "done"
    /\ Len(stagelog) = 6
    /\ file # None

\* the error kind the specification gives each cause of failure
ErrorKind(site) ==
    CASE site = "missing_document" -> "FileNotFound"
      [] site \in {"secondary_unconfigured", "secondary_failed"} -> "ExtractionFailed"
      [] site = "validation_failed" -> "ValidationFailed"
      [] site = "schema_not_found" -> "SchemaNotFound"
      [] OTHER -> "other"

\* C7: a missing document, an extraction failure and a validation failure
\* each reach the caller as an error kind of their own: the exception type
\* of a failed conversion is raised by no cause of another kind (so a
\* missing document is told from a missing schema, and an extraction
\* failure from a validation failure).
C7_DistinctErrorKinds ==
    pc = "failed" =>
        \A site \in {"missing_document", "secondary_unconfigured",
                     "secondary_failed", "validation_failed", "schema_not_found"} :
            RaisedAt(site) = exception => ErrorKind(site) = ErrorKind(cause)

TwelveRequired ==
    {"seller_tax_no", "seller_name", "seller_street", "buyer_tax_no",
     "buyer_name", "buyer_street", "currency", "issue_date", "number",
     "price_net", "price_tax", "price_gross"}

\* C8: the encoder produces no XML when a required source field is absent,
\* a field that is present but empty included.
C8_EncodeRejectsMissing ==
    (pc \in {"validate", "persist", "done"} /\ xml_content # None) =>
        \A f \in TwelveRequired :
            f \in DOMAIN Val(invoice_data) /\ Val(invoice_data)[f] # EMPTY

\* parent path and tag of every element, in document order
ExpectedElements ==
    << <<"", "Faktura">>,
       <<"Faktura", "Naglowek">>,
       <<"Naglowek", "KodFormularza">>,
       <<"Naglowek", "WariantFormularza">>,
       <<"Naglowek", "DataWytworzeniaFa">>,
       <<"Faktura", "Podmiot1">>,
       <<"Podmiot1", "DaneIdentyfikacyjne">>,
       <<"Podmiot1/DaneIdentyfikacyjne", "NIP">>,
       <<"Podmiot1/DaneIdentyfikacyjne", "Nazwa">>,
       <<"Podmiot1", "Adres">>,
       <<"Podmiot1/Adres", "KodKraju">>,
       <<"Podmiot1/Adres", "AdresL1">>,
       <<"Faktura", "Podmiot2">>,
       <<"Podmiot2", "DaneIdentyfikacyjne">>,
       <<"Podmiot2/DaneIdentyfikacyjne", "NIP">>,
       <<"Podmiot2/DaneIdentyfikacyjne", "Nazwa">>,
       <<"Podmiot2", "Adres">>,
       <<"Podmiot2/Adres", "KodKraju">>,
       <<"Podmiot2/Adres", "AdresL1">>,
       <<"Faktura", "Fa">>,
       <<"Fa", "KodWaluty">>,
       <<"Fa", "P_1">>,
       <<"Fa", "P_2">>,
       <<"Fa", "P_13_1">>,
       <<"Fa", "P_14_1">>,
       <<"Fa", "P_15">>,
       <<"Fa", "Adnotacje">>,
       <<"Fa/Adnotacje", "P_16">>,
       <<"Fa/Adnotacje", "P_17">>,
       <<"Fa/Adnotacje", "P_18">>,
       <<"Fa/Adnotacje", "P_18A">>,
       <<"Fa/Adnotacje", "Zwolnienie">>,
       <<"Fa/Adnotacje/Zwolnienie", "P_19N">>,
       <<"Fa/Adnotacje", "NoweSrodkiTransportu">>,
       <<"Fa/Adnotacje/NoweSrodkiTransportu", "P_22N">>,
       <<"Fa/Adnotacje", "P_23">>,
       <<"Fa/Adnotacje", "PMarzy">>,
       <<"Fa/Adnotacje/PMarzy", "P_PMarzyN">>,
       <<"Fa", "RodzajFaktury">> >>

\* the texts of the annotation block and of the invoice-kind marker
ExpectedFixedTexts ==
    << EMPTY, <<"2">>, <<"2">>, <<"2">>, <<"2">>, EMPTY, <<"1">>, EMPTY, <<"1">>,
       <<"2">>, EMPTY, <<"1">>, <<"V","A","T">> >>

\* C9: every encoded document has exactly the elements header (form code
\* with system code and schema version, variant, creation timestamp), seller
\* identity then address, buyer identity then address, the financial block
\* (currency, issue date, number, net, tax, gross), the annotation block and
\* the invoice kind last, in this order; the annotation block and the
\* invoice kind hold the same values whatever the invoice.
C9_ElementOrder ==
    xml_content # None =>
        LET x == Val(xml_content)
        IN  /\ Len(x) = Len(ExpectedElements)
            /\ \A i \in 1..Len(x) : <<x[i].parent, x[i].tag>> = ExpectedElements[i]
            /\ Len(x[3].attrib) = 2
            /\ x[3].attrib[1][1] = "kodSystemowy"
            /\ x[3].attrib[2][1] = "wersjaSchemy"
            /\ \A i \in 1..Len(ExpectedFixedTexts) :
                  /\ x[26 + i].text = ExpectedFixedTexts[i]
                  /\ x[26 + i].attrib = <<>>

C9_Witness ==
    /\ pc = "enc_once"
    /\ xml_content # None
    /\ Val(invoice_data).seller_street = EMPTY
    /\ "seller_country" \notin DOMAIN Val(invoice_data)

\* C10: two encodings of the same invoice under the same variant are
\* identical when the clock reads the same, and differ in nothing but the
\* creation timestamp when it does not; one fails exactly if the other does.
C10_Deterministic ==
    pc = "enc_twice" =>
        /\ prev_xml = None <=> xml_content = None
        /\ prev_xml # None =>
              LET x == Val(prev_xml)
                  y == Val(xml_content)
              IN  /\ Len(x) = Len(y)
                  /\ \A i \in 1..Len(x) :
                        x[i] # y[i] =>
                            /\ x[i].tag = "DataWytworzeniaFa"
                            /\ x[i].parent = y[i].parent
                            /\ x[i].tag = y[i].tag
                            /\ x[i].attrib = y[i].attrib
                  /\ prev_now = enc_now => x = y

C10_Witness ==
    /\ pc = "enc_twice"
    /\ prev_xml # None
    /\ prev_now # enc_now
    /\ prev_xml # xml_content

\* the text of the element at a path of the document, None if there is none
ElementText(x, parent, tag) ==
    IF \E i \in 1..Len(x) : x[i].parent = parent /\ x[i].tag = tag
    THEN Some(x[CHOOSE i \in 1..Len(x) : x[i].parent = parent /\ x[i].tag = tag].text)
    ELSE None

\* where a reader of a KSeF document finds each fixed field of the invoice
FixedFieldPath ==
    [number |-> <<"Fa", "P_2">>,
     issue_date |-> <<"Fa", "P_1">>,
     sell_date |-> <<"Fa", "P_6">>,
     payment_to |-> <<"Fa/Platnosc/TerminPlatnosci", "Termin">>,
     price_net |-> <<"Fa", "P_13_1">>,
     price_tax |-> <<"Fa", "P_14_1">>,
     price_gross |-> <<"Fa", "P_15">>,
     seller_name |-> <<"Podmiot1/DaneIdentyfikacyjne", "Nazwa">>,
     seller_tax_no |-> <<"Podmiot1/DaneIdentyfikacyjne", "NIP">>,
     buyer_name |-> <<"Podmiot2/DaneIdentyfikacyjne", "Nazwa">>,
     buyer_tax_no |-> <<"Podmiot2/DaneIdentyfikacyjne", "NIP">>]

\* C11: reading the fixed fields (number, issue date, sell date,
\* payment-due date, the three totals, both parties' names and tax ids) back
\* from the encoded document gives the values of the invoice: every fixed
\* field the invoice has is in the document, unaltered.
C11_RoundTrip ==
    (pc \in {"enc_once", "enc_twice"} /\ xml_content # None) =>
        \A f \in DOMAIN FixedFieldPath \cap DOMAIN Val(invoice_data) :
            ElementText(Val(xml_content), FixedFieldPath[f][1], FixedFieldPath[f][2])
                = Some(Val(invoice_data)[f])


\* a configuration of non-negative prices and positive quantities
ValidConfig(cfg) ==
    /\ \A i \in 1..Len(cfg.products) : cfg.products[i].price_net_min >= 0
    /\ cfg.generation.min_quantity >= 1

Abs(n) == IF n < 0 THEN 0 - n ELSE n

\* C12: for every invoice generated under a configuration of non-negative
\* prices and positive quantities, the gross total differs from net total
\* plus tax total by at most 0.01.
C12_GrossIsNetPlusTax ==
    (invoice # None /\ ValidConfig(Val(config))) =>
        Abs(Float(Val(invoice).price_gross)
              - (Float(Val(invoice).price_net) + Float(Val(invoice).price_tax))) <= 1

C12_Witness ==
    /\ invoice # None
    /\ ValidConfig(Val(config))
    /\ Len(Val(invoice).positions) = 2
    /\ Float(Val(invoice).price_tax) > 0
    /\ \E i \in 1..2 : Float(Val(invoice).positions[i].quantity) > 100

\* the sum over the positions of the amount written under key
RECURSIVE LineSum(_, _)
LineSum(ps, key) ==
    IF ps = <<>> THEN 0
    ELSE Float(ps[Len(ps)][key]) + LineSum(SubSeq(ps, 1, Len(ps) - 1), key)

\* C13: each invoice-level total (net, tax, gross) of a generated invoice
\* is exactly the sum of the corresponding line totals of its positions.
C13_TotalsAreLineSums ==
    invoice # None =>
        LET inv == Val(invoice)
        IN  /\ inv.positions = positions
            /\ Float(inv.price_net) = LineSum(inv.positions, "total_price_net")
            /\ Float(inv.price_tax) = LineSum(inv.positions, "total_price_tax")
            /\ Float(inv.price_gross) = LineSum(inv.positions, "total_price_gross")

C13_Witness ==
    /\ invoice # None
    /\ Len(Val(invoice).positions) = 2
    /\ \A i \in 1..2 : Float(Val(invoice).positions[i].quantity) > 100
    /\ Float(Val(invoice).price_tax) > 0
    /\ Val(invoice).positions[1].price_net # Val(invoice).positions[2].price_net

\* C14: for every generated position the unit tax is the unit net times
\* the rate over 100 rounded to 2 places, the unit gross is unit net plus
\* unit tax, and each line total is the rounded unit amount times the
\* quantity: rounding comes first, the multiplication by quantity second.
C14_RoundThenMultiply ==
    \A i \in 1..Len(positions) :
        LET p == positions[i]
            unit_net == Float(p.price_net)
            unit_tax == Float(p.price_tax)
            unit_gross == Float(p.price_gross)
            rate == NatVal(p.tax)
            quantity == Float(p.quantity) \div 100
        IN  /\ Float(p.quantity) = 100 * quantity
            /\ 2 * Abs(unit_net * rate - 100 * unit_tax) <= 100
            /\ unit_gross = unit_net + unit_tax
            /\ Float(p.total_price_net) = unit_net * quantity
            /\ Float(p.total_price_tax) = unit_tax * quantity
            /\ Float(p.total_price_gross) = unit_gross * quantity

\* a position on which multiplying first and rounding last gives another tax
C14_Witness ==
    \E i \in 1..Len(positions) :
        LET p == positions[i]
        IN  2 * Abs(Float(p.price_net) * (Float(p.quantity) \div 100) * NatVal(p.tax)
                      - 100 * Float(p.total_price_tax)) > 100

\* an amount written with exactly two fraction digits
TwoFractionDigits(s) ==
    LET parts == Split(s, {"."})
    IN  Len(parts) = 2 /\ Len(parts[2]) = 2

\* C15: every monetary field of a generated position and of a generated
\* invoice is written with exactly 2 fraction digits (unit net 100 at 23%
\* and quantity 2 gives "100.00", "23.00", "123.00", "200.00", "46.00",
\* "246.00").
C15_TwoFractionDigits ==
    /\ \A i \in 1..Len(positions) :
          \A k \in {"price_net", "price_tax", "price_gross", "total_price_net",
                    "total_price_tax", "total_price_gross"} :
              TwoFractionDigits(positions[i][k])
    /\ invoice # None =>
          \A k \in {"price_net", "price_tax", "price_gross"} :
              TwoFractionDigits(Val(invoice)[k])

\* C16: no position is derived from a negative unit net price, from a
\* quantity that is not positive or from a tax rate outside 0..100: line
\* derivation fails on such inputs, whatever the configuration holds.
C16_InvalidAmountRejected ==
    \A i \in 1..Len(positions) :
        /\ Float(positions[i].price_net) >= 0
        /\ Float(positions[i].quantity) > 0
        /\ NatVal(positions[i].tax) \in 0..100


\* C17: when the XSD of the selected variant is missing, validate raises to
\* the caller and returns no (ok, errors) result; in a conversion nothing is
\* returned or written, and the error that reaches the caller is of a kind
\* the missing input document does not raise.
C17_SchemaNotFound ==
    (validation # None /\ Val(validation).exception # "none") =>
        /\ ~schema_exists
        /\ Val(validation).error_message = None
        /\ pc = "failed"
        /\ cause = "schema_not_found"
        /\ returned = None
        /\ file = None
        /\ exception # RaisedAt("missing_document")

\* C18: a not-ok result of validate holds at least one entry, and every
\* entry carries the line number it originates from along with its
\* message, also when the XML is not well-formed or the validator errors.
C18_ErrorsCarryLines ==
    (validation # None /\ Val(validation).exception = "none"
        /\ ~Val(validation).is_valid) =>
        /\ Val(validation).error_message # None
        /\ Len(Val(Val(validation).error_message)) >= 1
        /\ \A i \in 1..Len(Val(Val(validation).error_message)) :
              Val(Val(validation).error_message)[i].line # None


SecondaryFailed ==
    /\ pc = "failed"
    /\ cause = "secondary_failed"
    /\ exception = "Exception"
    /\ invoice_data = None
    /\ xml_content = None
    /\ returned = None

\* C19: the secondary extractor removes the code fence around the answer
\* before parsing it, so a fenced JSON answer gives its record; when the
\* service call errors or what is left after stripping is no valid JSON it
\* raises and no record is returned, and every record it returns is the
\* value parsed from the answer.
C19_DefensiveParse ==
    ai_response # None =>
        LET resp == Val(ai_response)
        IN  /\ (~resp.api_ok
                  \/ resp.text \in {TextGarbage, TextFencedGarbage, TextFenceOnly,
                                    TextFencedOtherTag, TextProseThenFence})
                  => SecondaryFailed
            /\ (resp.api_ok
                  /\ resp.text \in {TextPlain, TextPadded, TextFenced, TextFencedJson})
                  => (cause # "secondary_failed" /\ invoice_data = Some(resp.value))
            /\ invoice_data # None
                  => (resp.api_ok /\ invoice_data = Some(resp.value)
                        /\ \E i \in 1..Len(resp.text) : resp.text[i] = "BODY")

C19_Witness ==
    /\ pc = "done"
    /\ ai_response # None
    /\ Val(ai_response).text = TextFencedJson
    /\ invoice_data = Some(AINotFound)
    /\ returned # None


\* C20: conversions running side by side do not affect one another: the
\* XML each one returns is the XML the same conversion returns when it runs
\* alone.
C20_NoSharedState ==
    \A t \in DOMAIN threads :
        threads[t].pc = "done" =>
            threads[t].xml = convert_to_ksef_xml(threads[t].invoice_data,
                                                 threads[t].schema_type, now,
                                                 InitialNamespaceMap).xml


\* the digits of a string, in order
DigitsOf(s) == SelectSeq(s, LAMBDA c : c \in Digits)

IsCanonicalDate(s) ==
    /\ Len(s) = 10
    /\ \A i \in {1, 2, 3, 4, 6, 7, 9, 10} : s[i] \in Digits
    /\ s[5] = "-"
    /\ s[8] = "-"

\* the groups of the date pattern that decides the issue date
DecidingDate == Val(text.date_match[CHOOSE i \in 1..Len(text.date_match) :
                        /\ text.date_match[i] # None
                        /\ \A j \in 1..(i - 1) : text.date_match[j] = None])

\* C22: an issue date set by the cascade has the form YYYY-MM-DD; the
\* day-first date 02.04.2025 becomes 2025-04-02 whichever of the separators
\* - / . it is written with, and a named-month English date gets the number
\* of its month and a two-digit day.
C22_CanonicalDate ==
    RulesRan =>
        LET d == Val(rules_result)[1]
        IN  /\ d.issue_date # EMPTY => IsCanonicalDate(d.issue_date)
            /\ (\E i \in 1..Len(text.date_match) : text.date_match[i] # None) =>
                  /\ d.issue_date # EMPTY
                  /\ \A sep \in DateSeps :
                        DecidingDate = << <<"0","2",sep,"0","4",sep,"2","0","2","5">> >>
                            => d.issue_date = <<"2","0","2","5","-","0","4","-","0","2">>
                  /\ DecidingDate = <<<<"2">>, <<"A","p","r","i","l">>, <<"2","0","2","5">>>>
                        => d.issue_date = <<"2","0","2","5","-","0","4","-","0","2">>
                  /\ DecidingDate = <<<<"1","2">>, <<"D","E","C","E","M","B","E","R">>, <<"2","0","2","4">>>>
                        => d.issue_date = <<"2","0","2","4","-","1","2","-","1","2">>

C22_Witness ==
    /\ RulesRan
    /\ text.date_match[1] = None
    /\ text.date_match[4] = Some(<<<<"0","2","/","0","4","/","2","0","2","5">>>>)
    /\ Val(rules_result)[1].issue_date = <<"2","0","2","5","-","0","4","-","0","2">>

\* the patterns of a total field, by their place in the list
PatternsOf(f) == {i \in 1..Len(amount_patterns) : amount_patterns[i] = f}

\* the amount a printed figure stands for, with two fraction digits: a dot
\* or comma before the last two digits is the decimal mark, spaces and the
\* other dots and commas group the thousands
PrintedAmount(raw) ==
    LET s == Remove(raw, WS)
        n == Len(s)
    IN  IF n >= 3 /\ s[n - 2] \in {".", ","}
        THEN Remove(SubSeq(s, 1, n - 3), {".", ","}) \o <<".">> \o SubSeq(s, n - 1, n)
        ELSE Remove(s, {".", ","}) \o <<".","0","0">>

\* C23: each of price_net, price_tax, price_gross is the last match of the
\* first pattern of its list that matches at all (a pattern further down
\* the list does not override it), written with two fraction digits and
\* equal to the amount printed.
C23_TotalsFromBestPattern ==
    RulesRan =>
        \A f \in {"price_net", "price_tax", "price_gross"} :
            LET d == Val(rules_result)[1]
                hits == {i \in PatternsOf(f) : text.amount_matches[i] # <<>>}
            IN  IF hits = {} THEN d[f] = <<"0",".","0","0">>
                ELSE LET i == CHOOSE k \in hits : \A h \in hits : k <= h
                         m == text.amount_matches[i]
                     IN  d[f] = PrintedAmount(m[Len(m)])

\* C24: the invoice number and the issue date come from the first pattern,
\* in list order, that matches; what the patterns after it match changes
\* nothing.
C24_FirstMatchWins ==
    RulesRan =>
        LET d == Val(rules_result)[1]
        IN  /\ \A i \in 1..Len(text.num_match) :
                  (/\ text.num_match[i] # None
                   /\ \A j \in 1..(i - 1) : text.num_match[j] = None)
                      => d.number = Val(text.num_match[i])
            /\ (\A i \in 1..Len(text.num_match) : text.num_match[i] = None)
                  => d.number = EMPTY
            /\ \A i \in 1..Len(text.date_match) :
                  (/\ text.date_match[i] # None
                   /\ \A j \in 1..(i - 1) : text.date_match[j] = None)
                      => d.issue_date = NormalizeDate(Val(text.date_match[i]))
            /\ (\A i \in 1..Len(text.date_match) : text.date_match[i] = None)
                  => d.issue_date = EMPTY

C24_Witness ==
    /\ RulesRan
    /\ text.num_match[3] # None
    /\ text.num_match[5] # None
    /\ text.num_match[3] # text.num_match[5]
    /\ text.num_match[1] = None
    /\ Val(rules_result)[1].number = Val(text.num_match[3])
    /\ text.date_match[4] # None
    /\ text.date_match[6] # None
    /\ Val(rules_result)[1].issue_date = <<"2","0","2","5","-","0","4","-","0","2">>


\* the variant an XSD file name stands for: what is between the brackets
FileVariant(path) ==
    LET open == CHOOSE i \in 1..Len(path) : path[i] = "("
        close == CHOOSE i \in 1..Len(path) : path[i] = ")"
    IN  SubSeq(path, open + 1, close - 1)

\* C25: the document encoded under one variant and the document the other
\* variant gives for the same invoice and clock differ in two elements and
\* no more: the system code attribute of the form code and the text of the
\* variant element; and the XSD that validation opens is the one of the
\* variant written in the document.
C25_VariantsDifferInTwoPlaces ==
    xml_content # None =>
        LET x == Val(xml_content)
            other == CHOOSE st \in SchemaTypes : st # schema_type
            y == Val(convert_to_ksef_xml(Val(invoice_data), other, enc_now,
                                         namespace_map).xml)
            diff == {i \in 1..Len(x) : x[i] # y[i]}
        IN  /\ Len(x) = Len(y)
            /\ Cardinality(diff) = 2
            /\ \E i, j \in diff :
                  /\ x[i].tag = "KodFormularza"
                  /\ y[i].tag = "KodFormularza"
                  /\ x[i].parent = y[i].parent
                  /\ x[i].text = y[i].text
                  /\ x[i].attrib[1][1] = "kodSystemowy"
                  /\ y[i].attrib[1][1] = "kodSystemowy"
                  /\ x[i].attrib[1][2] # y[i].attrib[1][2]
                  /\ x[i].attrib[2] = y[i].attrib[2]
                  /\ x[j].tag = "WariantFormularza"
                  /\ y[j].tag = "WariantFormularza"
                  /\ x[j].parent = y[j].parent
                  /\ x[j].attrib = y[j].attrib
                  /\ x[j].text # y[j].text
                  /\ (validation # None =>
                        /\ x[j].text = FileVariant(schema_path(schema_type))
                        /\ x[i].attrib[1][2] =
                              <<"F","A"," ","(">> \o FileVariant(schema_path(schema_type)) \o <<")">>)

C25_Witness ==
    /\ xml_content # None
    /\ validation # None
    /\ Val(validation).exception = "none"
    /\ schema_type = <<"F","A","3">>
    /\ ElementText(Val(xml_content), "Naglowek", "WariantFormularza") = Some(<<"3">>)


\* C26: a generated invoice has between min_positions and max_positions
\* positions, and each of them names a product of the catalog, has a
\* quantity between min_quantity and max_quantity and a unit net price
\* between the price_net_min and price_net_max of that product.
C26_PositionsWithinBounds ==
    invoice # None =>
        LET cfg == Val(config)
            ps == Val(invoice).positions
        IN  /\ Len(ps) >= cfg.generation.min_positions
            /\ Len(ps) <= cfg.generation.max_positions
            /\ \A i \in 1..Len(ps) :
                  /\ Float(ps[i].quantity) >= 100 * cfg.generation.min_quantity
                  /\ Float(ps[i].quantity) <= 100 * cfg.generation.max_quantity
                  /\ \E k \in 1..Len(cfg.products) :
                        /\ ps[i].name = cfg.products[k].name
                        /\ 10 * Float(ps[i].price_net) >= cfg.products[k].price_net_min
                        /\ 10 * Float(ps[i].price_net) <= cfg.products[k].price_net_max


\* the name the invoice's file is to have: faktura-, the number with every
\* slash turned into a dash, a dot and the extension
ExpectedFileName(num, ext) ==
    <<"f","a","k","t","u","r","a","-">> \o [i \in 1..Len(num) |-> IF num[i] = "/" THEN "-" ELSE num[i]]
        \o <<".">> \o ext

\* C27: every invoice that has been reported as generated has its own file
\* in the output directory, named faktura-<number with dashes>.<ext>: a
\* JSON file with extension json for the formats json and xml, a PDF with
\* extension pdf for the format pdf; and there is no file but these.
C27_OneFilePerInvoice ==
    LET output_format == Val(config).generation.output_format
        ext == IF output_format = <<"p","d","f">> THEN <<"p","d","f">> ELSE <<"j","s","o","n">>
        kind == IF output_format = <<"p","d","f">> THEN "pdf" ELSE "json"
    IN  pc \in {"batch_save", "batch_done", "batch_failed"} =>
            /\ \A i \in 1..Len(logged) :
                  LET path == ExpectedFileName(invoices[i].number, ext)
                  IN  /\ logged[i].invoice_number = invoices[i].number
                      /\ logged[i].filepath = path
                      /\ path \in DOMAIN files
                      /\ files[path].format = kind
                      /\ files[path].invoice = invoices[i]
            /\ Cardinality(DOMAIN files) = Len(logged)
            /\ pc = "batch_done" => Len(logged) = Len(invoices)

\* the sequence number an invoice number starts with
SequenceNumber(num) == NatVal(Split(num, {"/"})[1])

\* C30: generate_invoices(count) returns count invoices numbered 1, 2, ...,
\* count in this order, whatever their dates; the paths save_invoices
\* derives from their numbers are pairwise distinct, and when the batch is
\* saved no file has been written twice.
C30_BatchNumbersDistinct ==
    pc \in {"batch_save", "batch_done", "batch_failed"} =>
        LET output_format == Val(config).generation.output_format
        IN  /\ Len(invoices) = count
            /\ \A i \in 1..Len(invoices) : SequenceNumber(invoices[i].number) = i
            /\ \A i, j \in 1..Len(invoices) :
                  i # j => /\ filename(invoices[i], output_format)
                                # filename(invoices[j], output_format)
                           /\ Replace(filename(invoices[i], output_format), <<".","x","m","l">>, <<".","j","s","o","n">>)
                                # Replace(filename(invoices[j], output_format), <<".","x","m","l">>, <<".","j","s","o","n">>)
            /\ (pc = "batch_done" /\ output_format # <<"c","s","v">>) =>
                  /\ Cardinality(DOMAIN files) = count
                  /\ \A i \in 1..Len(invoices) :
                        \E path \in DOMAIN files : files[path].invoice = invoices[i]

C30_Witness ==
    /\ pc = "batch_done"
    /\ count = MaxCount
    /\ Len(invoices) = MaxCount
    /\ invoices[1].issue_date = invoices[2].issue_date
    /\ invoices[2].issue_date # invoices[3].issue_date
    /\ Cardinality(DOMAIN files) = MaxCount


\* C28: a conversion returns XML only for a record that passes the
\* completeness criteria, whichever tier produced it: each of the nine
\* required fields is there and not empty, and no total is the placeholder
\* 0.00.
C28_GateOnEveryTier ==
    returned # None =>
        \A f \in NineRequired :
            /\ f \in DOMAIN Val(invoice_data)
            /\ Val(invoice_data)[f] # EMPTY
            /\ Val(invoice_data)[f] # <<"0",".","0","0">>


\* C29: the encoder of ksef_xml_converter.py and the encoder of
\* invoice_pdf_to_ksef_xml.py under variant FA2 agree on every invoice and
\* clock: the same elements with the same values in the same order, and a
\* failure of one exactly when the other fails, on the same missing keys.
C29_EncodersAgree ==
    pc \in {"enc_once", "enc_twice", "saved", "save_failed"} =>
        LET d == Val(invoice_data)
            main == convert_to_ksef_xml(d, <<"F","A","2">>, enc_now, namespace_map)
            legacy == legacy_convert_to_ksef_xml(d, enc_now, namespace_map)
        IN  /\ main.xml = legacy.xml
            /\ main.exception = legacy.exception
            /\ MissingKeys(d, encoder_keys) = MissingKeys(d, Legacyencoder_keys)
            /\ schema_type = <<"F","A","2">> => xml_content = legacy.xml
            /\ (/\ xml_content # None
                /\ ElementText(Val(xml_content), "Naglowek", "WariantFormularza")
                      = Some(<<"2">>))
                  => xml_content = main.xml

\* the stand-alone encoder has written a document where the converter is
\* configured for FA3, at a clock other than the initial one
C29_Witness ==
    /\ pc = "saved"
    /\ schema_type = <<"F","A","3">>
    /\ xml_content # None
    /\ ElementText(Val(xml_content), "Naglowek", "WariantFormularza") = Some(<<"2">>)
    /\ enc_now > 0

=============================================================================
